---- MODULE Spec2Model ----
(***************************************************************************)
(* A model of the partially observable RRT* / FARRT* planners of           *)
(* src/src/farrt: the tree store, the RRT* expansion iteration, subtree    *)
(* severance, the inconsistency queue and the observe-act-replan driver.   *)
(*                                                                         *)
(* Geometry.  The world is the box [0,DimX] x [0,DimY]; the points that    *)
(* occur are its lattice points <<x, y>>.  Lengths are kept in hundredths  *)
(* (Dist = round(100 * sqrt(d2))), squared lengths exactly.  An obstacle   *)
(* is a small square pillar; its centre is a lattice point or the middle   *)
(* of two lattice points next to each other in a row, and is written in    *)
(* half units: <<2x, 2y>> is the pillar on the lattice point <<x, y>>,     *)
(* <<2x + 1, 2y>> the one between <<x, y>> and <<x + 1, y>>.  A segment    *)
(* between lattice points meets a pillar iff the centre lies on the        *)
(* segment, and a lattice point is within r of it iff the centre is.       *)
(*                                                                         *)
(* Random draws (World.random_position, and the point pushed by the        *)
(* potential field, whose numeric value comes from library code) are       *)
(* generic: a draw never repeats a coordinate that was used before.  The   *)
(* only coordinate handed out twice is goal_pt, which sample_free returns  *)
(* verbatim.  A draw is a lattice point from which steering lands on a     *)
(* lattice point.                                                          *)
(***************************************************************************)
EXTENDS Integers, FiniteSets, Sequences, TLC

\* ------------------------------------------------------------------ sizes
DimX == 5            \* world.dims[0]
DimY == 2            \* world.dims[1]
MaxObs == 2          \* at most this many pillars in the world
Iters == 3           \* self.iters (scaled down)
SteerDistance == 3   \* max_step_length
AvoidRadius == 2     \* obstacle_avoidance_radius = steer_distance * 2/3
GoalReachedThresh == 1
VisionR2x4 == 9      \* (2 * vision_radius)^2, vision_radius = 1.5

Inf == 1000000       \* float('inf')
None == <<-1, -1>>   \* Python None where a point is expected

Pts == (0 .. DimX - 1) \X (0 .. DimY - 1)
x_goal == <<DimX - 1, 0>>
\* the start positions the planner is constructed with
Starts == {<<0, 0>>, <<1, 0>>}

\* ---------------------------------------------------------------- helpers
Min(a, b) == IF a < b THEN a ELSE b
Max(a, b) == IF a > b THEN a ELSE b

Put(f, k, v) == [x \in (DOMAIN f) \cup {k} |-> IF x = k THEN v ELSE f[x]]
Del(f, k) == [x \in (DOMAIN f) \ {k} |-> f[x]]
Get(f, k) == IF k \in DOMAIN f THEN f[k] ELSE None
Get2(f, k) == IF k \in DOMAIN f THEN f[k] ELSE {}

\* ------------------------------------------------------------- geometry
D2(a, b) == (a[1] - b[1]) * (a[1] - b[1]) + (a[2] - b[2]) * (a[2] - b[2])

MaxD2 == DimX * DimX + DimY * DimY

SqrtTbl == [n \in 0 .. MaxD2 |->
              CHOOSE r \in 0 .. 100 * (DimX + DimY) :
                 /\ (r = 0 \/ (2 * r - 1) * (2 * r - 1) <= 40000 * n)
                 /\ 40000 * n < (2 * r + 1) * (2 * r + 1)]

\* Point.distance / get_edge_cost, in hundredths
get_edge_cost(a, b) == SqrtTbl[D2(a, b)]

PlusCost(c, d) == IF c >= Inf THEN Inf ELSE c + d

\* c lies on the closed segment ab
OnSegment(c, a, b) ==
  /\ (b[1] - a[1]) * (c[2] - a[2]) = (b[2] - a[2]) * (c[1] - a[1])
  /\ Min(a[1], b[1]) <= c[1] /\ c[1] <= Max(a[1], b[1])
  /\ Min(a[2], b[2]) <= c[2] /\ c[2] <= Max(a[2], b[2])

\* a lattice point in half units, the unit of the pillar centres
Dbl(p) == <<2 * p[1], 2 * p[2]>>

\* not detected_obstacles.intersects(edge a-b)
edge_obstacle_free(a, b, obs) ==
  \A c \in obs : ~OnSegment(c, Dbl(a), Dbl(b))

\* point_obstacle_free
point_obstacle_free(p, obs) == Dbl(p) \notin obs

\* p in obs.buffer(r)   (r a whole number of units)
InBuffer(p, obs, r) == \E c \in obs : D2(Dbl(p), c) <= 4 * r * r

\* World.make_observations: the obstacles inside the vision disc
make_observations(pos, obs) == {c \in obs : D2(Dbl(pos), c) <= VisionR2x4}

\* steer: the point of the segment near -> rand at distance
\* min(d, steer_distance) from near; None when that point is off the lattice
steer(near, rand) ==
  IF D2(near, rand) = 0 THEN rand
  ELSE IF D2(near, rand) <= SteerDistance * SteerDistance THEN rand
  ELSE LET S == {p \in Pts : /\ OnSegment(p, near, rand)
                             /\ D2(near, p) = SteerDistance * SteerDistance}
       IN IF S = {} THEN None ELSE CHOOSE p \in S : TRUE

\* find_nearest: the members of tree \ {q} closest to q (a tie is settled by
\* the geometry library's internal order)
find_nearest(tree, q) ==
  {p \in tree \ {q} : \A o \in tree \ {q} : D2(p, q) <= D2(o, q)}

\* floor(10000 * (2^D (1 + 1/D) / pi) * ln(n) / n), D = 2
LnTbl == <<0, 6619, 6993, 6619, 6147, 5703, 5309, 4964, 4662, 4397, 4163,
           3954, 3768, 3600, 3447, 3309, 3182, 3066, 2959, 2860, 2768>>

\* World.getBounds: minx, miny, maxx, maxy of the domain box
getBounds == <<0, 0, DimX, DimY>>

\* find_ball_radius, squared, in 1/10000
find_ball_radius(num_vertices) ==
  Min((getBounds[3] - getBounds[1]) * (getBounds[4] - getBounds[2])
        * LnTbl[num_vertices],
      10000 * SteerDistance * SteerDistance)

\* find_nearby_pts
find_nearby_pts(tree, n, q) ==
  {p \in tree \ {q} : 10000 * D2(p, q) <= find_ball_radius(n)}

\* ------------------------------------------------------------ tree store
\* A store value T: V = rrt_vertices, G = rrt_tree, E = rrt_edges,
\* c2p = child_to_parent_map, p2c = parent_to_children_map (a defaultdict:
\* its domain is the set of keys looked up so far), cost = cost_to_reach,
\* err = the exception raised, "" when none.
Raise(T, e) == [T EXCEPT !.err = e]

\* defaultdict lookup: creates the key
Touch(p2c, p) == IF p \in DOMAIN p2c THEN p2c ELSE Put(p2c, p, {})

set_cost_to_reach(T, pt, c) == [T EXCEPT !.cost = Put(T.cost, pt, c)]

\* set_child_parent without the discard of the child from its old parent's
\* children
set_child_parent_keep(T, child, parent) ==
  IF T.err # "" THEN T
  ELSE IF parent = None /\ child \in DOMAIN T.p2c
  THEN IF child \in DOMAIN T.c2p
       THEN [T EXCEPT !.c2p = Del(T.c2p, child)]
       ELSE Raise(T, "KeyError")
  ELSE IF parent = None
  THEN Raise(T, "TypeError")
  ELSE LET t == Touch(T.p2c, parent)
       IN [T EXCEPT !.c2p = Put(T.c2p, child, parent),
                    !.p2c = [t EXCEPT ![parent] = @ \cup {child}]]

\* set_child_parent(child, parent); parent may be None
set_child_parent(T, child, parent) ==
  LET old_parent == Get(T.c2p, child)
      p2c1 == IF old_parent # None
              THEN LET t == Touch(T.p2c, old_parent)
                   IN [t EXCEPT ![old_parent] = @ \ {child}]
              ELSE T.p2c
  IN IF T.err # "" THEN T
     ELSE IF parent = None /\ child \in DOMAIN p2c1
     THEN IF child \in DOMAIN T.c2p
          THEN [T EXCEPT !.p2c = p2c1, !.c2p = Del(T.c2p, child)]
          ELSE Raise(T, "KeyError")
     ELSE IF parent = None
     THEN Raise(T, "TypeError")
     ELSE LET t == Touch(p2c1, parent)
          IN [T EXCEPT !.c2p = Put(T.c2p, child, parent),
                       !.p2c = [t EXCEPT ![parent] = @ \cup {child}]]

\* add_start_vertex that labels the root with the cost of one unit of length
add_start_vertex_unit(T, pt) ==
  set_cost_to_reach([T EXCEPT !.G = @ \cup {pt}, !.V = @ \cup {pt}], pt, 100)

\* add_start_vertex
add_start_vertex(T, pt) ==
  set_cost_to_reach([T EXCEPT !.G = @ \cup {pt}, !.V = @ \cup {pt}], pt, 0)

\* add_vertex
add_vertex(T, pt, parent, c) ==
  IF T.err # "" THEN T
  ELSE LET T1 == [T EXCEPT !.G = @ \cup {pt}, !.V = @ \cup {pt},
                           !.E = @ \cup {<<parent, pt>>}]
           T2 == set_child_parent(T1, pt, parent)
       IN IF T2.err # "" THEN T2 ELSE set_cost_to_reach(T2, pt, c)

\* reassign_parent
reassign_parent(T, pt, parent, c, allow_same_parent) ==
  LET prev_parent == Get(T.c2p, pt)
  IN IF T.err # "" THEN T
     ELSE IF prev_parent = None THEN Raise(T, "ValueError")
     ELSE IF prev_parent = parent
     THEN IF allow_same_parent THEN T ELSE Raise(T, "ValueError")
     ELSE LET T1 == [T EXCEPT !.E = (@ \ {<<prev_parent, pt>>, <<pt, prev_parent>>})
                                      \cup {<<parent, pt>>}]
              T2 == set_child_parent(T1, pt, parent)
              T3 == [T2 EXCEPT !.p2c = Touch(@, prev_parent)]
          IN IF T2.err # "" THEN T2
             ELSE IF pt \in T3.p2c[prev_parent] THEN Raise(T3, "AssertionError")
             ELSE set_cost_to_reach(T3, pt, c)

\* ------------------------------------------------------ RRT* expansion
\* get_min_cost_point that keeps x_nearest whatever nearby_pts holds
get_min_cost_point_nearest(T, nearby_pts, x_nearest, x_new, obs) ==
  {<<x_nearest, PlusCost(T.cost[x_nearest], get_edge_cost(x_nearest, x_new))>>}


\* get_min_cost_point: the possible results <<min_point, min_cost>>.  The
\* loop keeps the first candidate that attains the least cost below the
\* cost through x_nearest; the order of nearby_pts.geoms settles a tie.
get_min_cost_point(T, nearby_pts, x_nearest, x_new, obs) ==
  LET c0 == PlusCost(T.cost[x_nearest], get_edge_cost(x_nearest, x_new))
      tc(p) == PlusCost(T.cost[p], get_edge_cost(p, x_new))
      C == {p \in nearby_pts : edge_obstacle_free(p, x_new, obs) /\ tc(p) < c0}
      B == {p \in C : \A q \in C : tc(p) <= tc(q)}
  IN IF C = {} THEN {<<x_nearest, c0>>} ELSE {<<p, tc(p)>> : p \in B}

\* the loop body of do_rrtstar_rewiring that re-parents on equal cost too
RewireOne_ties(T, x_nearby, x_new, obs, allow_same_parent) ==
  IF T.err # "" THEN T
  ELSE IF edge_obstacle_free(x_new, x_nearby, obs)
  THEN LET cost_with_new ==
             PlusCost(T.cost[x_new], get_edge_cost(x_new, x_nearby))
       IN IF T.cost[x_nearby] >= cost_with_new
          THEN reassign_parent(T, x_nearby, x_new, cost_with_new,
                               allow_same_parent)
          ELSE T
  ELSE T

\* do_rrtstar_rewiring: one pass of the loop body for x_nearby
RewireOne(T, x_nearby, x_new, obs, allow_same_parent) ==
  IF T.err # "" THEN T
  ELSE IF edge_obstacle_free(x_new, x_nearby, obs)
  THEN LET cost_with_new ==
             PlusCost(T.cost[x_new], get_edge_cost(x_new, x_nearby))
       IN IF T.cost[x_nearby] > cost_with_new
          THEN reassign_parent(T, x_nearby, x_new, cost_with_new,
                               allow_same_parent)
          ELSE T
  ELSE T

RECURSIVE RewireLoop(_, _, _, _, _)
RewireLoop(T, S, x_new, obs, allow_same_parent) ==
  IF S = {} THEN T
  ELSE LET x == CHOOSE x \in S : TRUE
       IN RewireLoop(RewireOne(T, x, x_new, obs, allow_same_parent),
                     S \ {x}, x_new, obs, allow_same_parent)

\* do_rrtstar_rewiring
do_rrtstar_rewiring(T, nearby_pts, x_min, x_new, obs, cur) ==
  RewireLoop(T, nearby_pts \ {x_min}, x_new, obs, x_new = cur)

\* The body of `if self.edge_obstacle_free(x_nearest, x_new)` up to the
\* rewiring: the possible outcomes [T, x_min, min_cost, nearby]
Expand(T, x_nearest, x_new, obs, cur) ==
  LET nearby_points == find_nearby_pts(T.G, Cardinality(T.V), x_new)
  IN {[T |-> do_rrtstar_rewiring(add_vertex(T, x_new, m[1], m[2]),
                                 nearby_points, m[1], x_new, obs, cur),
       x_min |-> m[1], min_cost |-> m[2], nearby |-> nearby_points] :
        m \in get_min_cost_point(T, nearby_points, x_nearest, x_new, obs)}

\* extract_path(endpoint, root, reverse = True): the list of the parents of
\* endpoint up to root; <<None>> when get_parent raises, and a list longer
\* than the lattice when the walk does not end
RECURSIVE ParentWalk(_, _, _, _)
ParentWalk(c2p, curr, root, fuel) ==
  IF curr = root THEN <<>>
  ELSE IF fuel = 0 THEN <<curr>>
  ELSE IF curr \notin DOMAIN c2p THEN <<None>>
  ELSE <<c2p[curr]>> \o ParentWalk(c2p, c2p[curr], root, fuel - 1)

\* extract_path(endpoint, root, reverse = False): the points from endpoint up
\* to the child of root, in the order of the reversed list
RECURSIVE ForwardWalk(_, _, _, _)
ForwardWalk(c2p, curr, root, fuel) ==
  IF curr = root THEN <<>>
  ELSE IF fuel = 0 THEN <<curr>>
  ELSE IF curr \notin DOMAIN c2p THEN <<None>>
  ELSE ForwardWalk(c2p, c2p[curr], root, fuel - 1) \o <<curr>>

extract_path_forward(c2p, endpoint, root) ==
  ForwardWalk(c2p, endpoint, root, Cardinality(Pts) + 1)

extract_path(c2p, endpoint, root) ==
  ParentWalk(c2p, endpoint, root, Cardinality(Pts) + 1)

PathRaises(path) == \E k \in 1 .. Len(path) : path[k] = None
PathDiverges(path) == Len(path) > Cardinality(Pts)

\* ------------------------------------------------- inconsistency queue
\* A queue value Q: heap = rewiringPQ, a bag of entries <<key, pt>> (entry
\* |-> number of copies); key_map = queue_key_map; err as for the store.
EntryLeq(e, f) ==
  \/ e[1] < f[1]
  \/ e[1] = f[1] /\ e[2][1] < f[2][1]
  \/ e[1] = f[1] /\ e[2][1] = f[2][1] /\ e[2][2] <= f[2][2]

HeapPut(h, e) == IF e \in DOMAIN h THEN [h EXCEPT ![e] = @ + 1] ELSE Put(h, e, 1)
HeapTake(h, e) == IF h[e] > 1 THEN [h EXCEPT ![e] = @ - 1] ELSE Del(h, e)
\* the greatest entry in place of the least
HeapLast(h) == CHOOSE e \in DOMAIN h : \A f \in DOMAIN h : EntryLeq(f, e)
HeapTop(h) == CHOOSE e \in DOMAIN h : \A f \in DOMAIN h : EntryLeq(e, f)
EmptyHeap == [e \in {} |-> 0]

\* get_key: cost of the nearest tree vertex plus the distance to it; one
\* value for each vertex find_nearest may return; {} when the tree holds no
\* other point (nearest_points raises)
get_key(T, pt) ==
  {PlusCost(T.cost[n], get_edge_cost(n, pt)) : n \in find_nearest(T.G, pt)}

\* test_key_less
test_key_less(T, v_1, v_2) ==
  {k1 < k2 : k1 \in get_key(T, v_1), k2 \in get_key(T, v_2)}

\* insertPQ: the possible resulting queues
insertPQ(Q, T, pt) ==
  IF Q.err # "" THEN {Q}
  ELSE IF get_key(T, pt) = {} THEN {[Q EXCEPT !.err = "ValueError"]}
  ELSE {IF pt \notin DOMAIN Q.key_map
        THEN [Q EXCEPT !.key_map = Put(@, pt, key),
                       !.heap = HeapPut(@, <<key, pt>>)]
        ELSE Q : key \in get_key(T, pt)}

\* updatePQ without the assignment to queue_key_map
updatePQ_unmapped(Q, T, pt) ==
  IF Q.err # "" THEN {Q}
  ELSE IF get_key(T, pt) = {} THEN {[Q EXCEPT !.err = "ValueError"]}
  ELSE {IF pt \in DOMAIN Q.key_map
        THEN [Q EXCEPT !.heap = HeapPut(@, <<key, pt>>)]
        ELSE Q : key \in get_key(T, pt)}

\* updatePQ
updatePQ(Q, T, pt) ==
  IF Q.err # "" THEN {Q}
  ELSE IF get_key(T, pt) = {} THEN {[Q EXCEPT !.err = "ValueError"]}
  ELSE {IF pt \in DOMAIN Q.key_map
        THEN [Q EXCEPT !.key_map = Put(@, pt, key),
                       !.heap = HeapPut(@, <<key, pt>>)]
        ELSE Q : key \in get_key(T, pt)}

\* verify_queue
verify_queue(Q, T, pt) ==
  IF pt \in DOMAIN Q.key_map THEN updatePQ(Q, T, pt) ELSE insertPQ(Q, T, pt)

\* popPQ: [Q, pt, empty]; empty = queue.Empty was raised.  After a first
\* stale entry the loop reads every further entry (a pair, never a key of
\* key_map) until the heap is exhausted.
popPQ(Q) ==
  IF DOMAIN Q.heap = {}
  THEN [Q |-> Q, pt |-> None, empty |-> TRUE]
  ELSE LET e == HeapTop(Q.heap)
       IN IF e[2] \in DOMAIN Q.key_map /\ Q.key_map[e[2]] = e[1]
          THEN [Q |-> [Q EXCEPT !.heap = HeapTake(@, e),
                                !.key_map = Del(@, e[2])],
                pt |-> e[2], empty |-> FALSE]
          ELSE [Q |-> [Q EXCEPT !.heap = EmptyHeap],
                pt |-> None, empty |-> TRUE]

\* queue_not_empty: the possible [Q, res]
queue_not_empty(Q, T) ==
  LET r == popPQ(Q)
  IN IF r.empty THEN {[Q |-> r.Q, res |-> FALSE]}
     ELSE {[Q |-> q, res |-> TRUE] : q \in insertPQ(r.Q, T, r.pt)}

\* testQtop (do_farrt_rewiring): the possible [Q, res]; queue.Empty is not
\* caught here
testQtop(Q, T, v_bot) ==
  LET r == popPQ(Q)
  IN IF r.empty THEN {[Q |-> [r.Q EXCEPT !.err = "Empty"], res |-> FALSE]}
     ELSE IF test_key_less(T, r.pt, v_bot) = {}
     THEN {[Q |-> [r.Q EXCEPT !.err = "ValueError"], res |-> FALSE]}
     ELSE {[Q |-> q, res |-> b] :
             q \in insertPQ(r.Q, T, r.pt),
             b \in test_key_less(T, r.pt, v_bot)}

\* ------------------------------------------------------------ severance
\* set_cost_to_goal (FARRT*'s name for the cost label)
set_cost_to_goal(T, pt, c) == set_cost_to_reach(T, pt, c)

RECURSIVE DetachChildren(_, _, _)
DetachChildren(T, pt, S) ==
  IF S = {} THEN T
  ELSE LET other == CHOOSE o \in S : TRUE
           T1 == [T EXCEPT !.E = @ \ {<<pt, other>>, <<other, pt>>}]
       IN DetachChildren(set_child_parent(T1, other, None), pt, S \ {other})

\* sever_connections
sever_connections(T, pt) ==
  LET parent == Get(T.c2p, pt)
      T1 == IF parent # None
            THEN set_child_parent(
                   [T EXCEPT !.E = @ \ {<<pt, parent>>, <<parent, pt>>}],
                   pt, None)
            ELSE T
      T2 == [T1 EXCEPT !.p2c = Touch(@, pt)]
      T3 == DetachChildren(T2, pt, T2.p2c[pt])
  IN IF T.err # "" THEN T
     ELSE IF T3.err # "" THEN T3
     ELSE set_cost_to_goal([T3 EXCEPT !.V = @ \ {pt}, !.G = @ \ {pt}],
                           pt, Inf)

\* `for child in severed_children: self.sever_connections(child)`: the
\* stores the loop can end in, over every order of the set.  F holds the
\* pairs <<store, points still to sever>> after the same number of passes.
RECURSIVE SeverFront(_)
SeverFront(F) ==
  IF \A f \in F : f[2] = {} THEN {f[1] : f \in F}
  ELSE SeverFront(UNION {{<<sever_connections(f[1], v), f[2] \ {v}>> :
                            v \in f[2]} : f \in F})

SeverAll(T, S) == SeverFront({<<T, S>>})

\* the severed set without the descendants of the conflicting points
Descendants_none(p2c, S) == S

\* The severed set: the conflicting points and all their descendants over
\* get_children
RECURSIVE Descendants(_, _)
Descendants(p2c, S) ==
  LET N == S \cup UNION {Get2(p2c, s) : s \in S}
  IN IF N = S THEN S ELSE Descendants(p2c, N)

RECURSIVE TouchAll(_, _)
TouchAll(p2c, S) ==
  IF S = {} THEN p2c
  ELSE LET s == CHOOSE s \in S : TRUE IN TouchAll(Touch(p2c, s), S \ {s})

RECURSIVE InsertAll(_, _, _)
InsertAll(Qs, T, S) ==
  IF S = {} THEN Qs
  ELSE LET s == CHOOSE s \in S : TRUE
       IN InsertAll(UNION {insertPQ(q, T, s) : q \in Qs}, T, S \ {s})

\* the blocked nodes themselves in place of their parents
BlockedNodes(plan, cur, obs) ==
  {plan[k] : k \in
     {k \in 1 .. Len(plan) :
        ~edge_obstacle_free(plan[k], IF k = 1 THEN cur ELSE plan[k - 1], obs)}}

\* The parents of the planned-path nodes whose edge to the parent meets the
\* obstacles; the first node's parent is the current position
BlockedParents(plan, cur, obs) ==
  {(IF k = 1 THEN cur ELSE plan[k - 1]) : k \in
     {k \in 1 .. Len(plan) :
        ~edge_obstacle_free(plan[k], IF k = 1 THEN cur ELSE plan[k - 1], obs)}}

\* conflicting_pts with the whole avoidance radius in place of its half
ConflictingPtsWide(T, previous_plan, cur, obs) ==
  {p \in T.G : InBuffer(p, obs, AvoidRadius)}
    \cup BlockedParents(previous_plan, cur, obs)

\* get_parent that returns None for a point without a parent whatever
\* allow_none says
get_parent_lenient(T, pt, allow_none) ==
  IF pt \notin DOMAIN T.c2p
  THEN [parent |-> None, err |-> ""]
  ELSE [parent |-> T.c2p[pt], err |-> ""]

\* get_parent: the parent returned, or the exception raised
get_parent(T, pt, allow_none) ==
  IF pt \notin DOMAIN T.c2p
  THEN IF allow_none
       THEN [parent |-> None, err |-> ""]
       ELSE [parent |-> None, err |-> "ValueError"]
  ELSE [parent |-> T.c2p[pt], err |-> ""]

\* conflicting_pts before the severing: the tree points within half the
\* avoidance radius of the obstacles, and the blocked parents
ConflictingPts(T, previous_plan, cur, obs) ==
  {p \in T.G : InBuffer(p, obs, AvoidRadius \div 2)}
    \cup BlockedParents(previous_plan, cur, obs)

\* closest_parents without the removal of the freed points
ClosestParentsUnfreed(T, obs, conflicting0, freed) ==
  (({p \in T.G : InBuffer(p, obs, AvoidRadius)} \ conflicting0)
     \cup {T.c2p[p] : p \in conflicting0 \cap DOMAIN T.c2p})
    \ conflicting0

\* closest_parents: the boundary zone and the parents of the conflicting
\* points, less the conflicting and the freed points
ClosestParents(T, obs, conflicting0, freed) ==
  ((({p \in T.G : InBuffer(p, obs, AvoidRadius)} \ conflicting0)
      \cup {T.c2p[p] : p \in conflicting0 \cap DOMAIN T.c2p})
     \ conflicting0) \ freed

\* the orphans handed to insertPQ, those inside an obstacle too
queued_orphans_all(severed, obs) == severed

\* do_tree_severing: the severed points handed to insertPQ, those for which
\* point_obstacle_free holds
queued_orphans(severed, obs) ==
  {c \in severed : point_obstacle_free(c, obs)}

\* do_tree_severing: the possible outcomes
do_tree_severing(T, Q, previous_plan, cur, obs) ==
  LET conflicting0 == ConflictingPts(T, previous_plan, cur, obs)
      severed == Descendants(T.p2c, conflicting0)
      T0 == [T EXCEPT !.p2c = TouchAll(@, severed)]
      conflicting == {p \in conflicting0 : ~point_obstacle_free(p, obs)}
      freed == severed \ conflicting
  IN IF \E p \in conflicting0 : get_parent(T, p, FALSE).err # ""
     THEN {[T |-> Raise(T, "ValueError"), Q |-> Q, conflicting0 |-> conflicting0,
            conflicting |-> {}, closest_parents |-> {}, freed |-> {},
            severed |-> {}]}
     ELSE {[T |-> r[1], Q |-> r[2], conflicting0 |-> conflicting0,
            conflicting |-> conflicting,
            closest_parents |-> ClosestParents(T, obs, conflicting0, freed),
            freed |-> freed, severed |-> severed] :
             r \in UNION {{<<T1, Q1>> :
                             Q1 \in IF T1.err # "" THEN {Q}
                                    ELSE InsertAll({Q}, T1,
                                           queued_orphans(severed, obs))} :
                          T1 \in SeverAll(T0, severed)}}

\* ---------------------------------------------------------------- state
VARIABLES
  planner,                 \* the class that runs: "RRTStar" or "FARRTStar2"
  search,                  \* the reference planner (test.py): its fields
                           \* and the locals of the search that runs
  grain,                   \* lattice steps per unit of length: 1, or 2 when
                           \* the positions are on a lattice of half units
  x_start,                 \* the constructor's x_start
  world_obstacles,         \* world.obstacles (pillar centres)
  detected_obstacles,
  curr_pos,
  planned_path,            \* the coordinates of the nodes of planned_path
  built_tree,
  rrt_vertices, rrt_tree, rrt_edges,
  child_to_parent_map, parent_to_children_map, cost_to_reach,
  rewiringPQ, queue_key_map,
  i, final_pt, final_pt_cost,   \* the locals of the build / rewiring loop
  pc,                      \* where run() is: start, build, rewire, loop, crashed, hung
  err,                     \* the exception that ended the run
  last                     \* history: what the last step did

vars == <<search, planner, grain, x_start, world_obstacles, detected_obstacles, curr_pos, planned_path,
          built_tree, rrt_vertices, rrt_tree, rrt_edges, child_to_parent_map,
          parent_to_children_map, cost_to_reach, rewiringPQ, queue_key_map,
          i, final_pt, final_pt_cost, pc, err, last>>

Store == [V |-> rrt_vertices, G |-> rrt_tree, E |-> rrt_edges,
          c2p |-> child_to_parent_map, p2c |-> parent_to_children_map,
          cost |-> cost_to_reach, err |-> ""]

Queue == [heap |-> rewiringPQ, key_map |-> queue_key_map, err |-> ""]

SetStore(T) ==
  /\ rrt_vertices' = T.V
  /\ rrt_tree' = T.G
  /\ rrt_edges' = T.E
  /\ child_to_parent_map' = T.c2p
  /\ parent_to_children_map' = T.p2c
  /\ cost_to_reach' = T.cost

SetQueue(Q) ==
  /\ rewiringPQ' = Q.heap
  /\ queue_key_map' = Q.key_map

storeVars == <<rrt_vertices, rrt_tree, rrt_edges, child_to_parent_map,
               parent_to_children_map, cost_to_reach>>
queueVars == <<rewiringPQ, queue_key_map>>
loopVars == <<i, final_pt, final_pt_cost>>

EmptyMap == [e \in {} |-> None]

\* history records: pop = the queue before a pop and the point popped, prev
\* = the key popped by the step before; sev = the sets of a severing; pre =
\* the store, the queue, the plan and the position before a severing
NoPop == [pt |-> None, key_map |-> EmptyMap, heap |-> EmptyHeap, prev |-> -1]
NoSev == [conflicting0 |-> {}, conflicting |-> {}, closest_parents |-> {},
          freed |-> {}, severed |-> {}]
NoPre == [T |-> [V |-> {}, G |-> {}, E |-> {}, c2p |-> EmptyMap,
                 p2c |-> EmptyMap, cost |-> EmptyMap, err |-> ""],
          Q |-> [heap |-> EmptyHeap, key_map |-> EmptyMap, err |-> ""],
          plan |-> <<>>, pos |-> None]
NoLast == [op |-> "none", x_new |-> None, preV |-> {}, sev |-> NoSev,
           pop |-> NoPop, pre |-> NoPre, min_cost |-> Inf, built |-> FALSE,
           new |-> {}, deleted |-> {}, x_nearest |-> None, res |-> FALSE]

\* the reference planner before a search is set up
NoSearch == [flavour |-> "none", runForFullIterations |-> FALSE,
             V |-> {}, E |-> {}, child_to_parent_dict |-> EmptyMap,
             i |-> 0, path |-> <<>>, path_length |-> Inf, returned |-> FALSE]

\* the pillars on lattice points other than the start and the goal, and the
\* pillars between two lattice points
Pillars(start) == {Dbl(p) : p \in Pts \ {start, x_goal}}
GapPillars == {<<2 * x + 1, 2 * y>> : x \in 0 .. DimX - 2, y \in 0 .. DimY - 1}

\* the state after construction, but for the planner class, the start, the
\* obstacles of the world and the place of run()
InitPlanner ==
  /\ detected_obstacles = {}
  /\ curr_pos = x_start
  /\ planned_path = <<>>
  /\ built_tree = FALSE
  /\ rrt_vertices = {} /\ rrt_tree = {} /\ rrt_edges = {}
  /\ child_to_parent_map = EmptyMap
  /\ parent_to_children_map = EmptyMap
  /\ cost_to_reach = EmptyMap
  /\ rewiringPQ = EmptyHeap
  /\ queue_key_map = EmptyMap
  /\ i = 0 /\ final_pt = None /\ final_pt_cost = Inf
  /\ err = ""
  /\ last = NoLast

Init ==
  /\ planner \in {"RRTStar", "FARRTStar2"}
  /\ grain = 1
  /\ search = NoSearch
  /\ pc = "start"
  /\ x_start \in Starts
  /\ world_obstacles \in {O \in SUBSET Pillars(x_start) :
                            Cardinality(O) \in 1 .. MaxObs}
  /\ InitPlanner

\* reached_goal: the threshold argument is ignored, goal_reached_thresh
\* (one unit of length, grain lattice steps) is compared
reached_goal(x_new, goal, threshold) ==
  get_edge_cost(x_new, goal) < 100 * GoalReachedThresh * grain

SevOf(r) == [conflicting0 |-> r.conflicting0, conflicting |-> r.conflicting,
             closest_parents |-> r.closest_parents, freed |-> r.freed,
             severed |-> r.severed]

\* An uncaught exception ends run(); the state it leaves is not used again
Crash(e) ==
  /\ pc' = "crashed"
  /\ err' = e
  /\ last' = [NoLast EXCEPT !.op = "crash"]

\* Coordinates that were handed out before: a random draw avoids them
Used == (DOMAIN cost_to_reach) \cup {curr_pos, x_goal}

\* sample_free(goal_pt, buffer_radius): goal_pt, or a random position whose
\* buffer does not meet the detected obstacles (a buffer of radius 0 is
\* empty and meets nothing)
sample_free(goal_pt, buffer_radius) ==
  {goal_pt} \cup
  {p \in Pts \ Used :
     buffer_radius = 0 \/ ~InBuffer(p, detected_obstacles, buffer_radius)}

\* The start of build_rrt_tree: the tree, the vertices and the edges are
\* emptied (the maps and the cost labels are not) and the root is added
BuildStart(T) ==
  add_start_vertex([T EXCEPT !.G = {}, !.V = {}, !.E = {}], x_goal)

\* The position of run() once observe_world has returned: the test of the
\* loop after the initial observation, the call of update_plan in a pass
\* of the loop
after_observe(in_pass) == IF in_pass THEN "update" ELSE "loop"

\* observe_world has returned into run(): run() is at the test of its loop
\* or at the call of update_plan that ends a pass
Looping == pc \in {"loop", "update"}

\* The return of build_rrt_tree / do_farrt_rewiring into do_first_plan /
\* replan: the plan is extracted and observe_world returns into run().
\* do_first_plan runs in the initial observation only (a pass that follows
\* an empty initial observation observes from the same position), replan
\* in a pass of the loop only.
Finish(T, Q, fin, lst) ==
  LET path == extract_path(T.c2p, fin, x_goal)
  IN /\ SetStore(T)
     /\ SetQueue(Q)
     /\ i' = 0 /\ final_pt' = None /\ final_pt_cost' = Inf
     /\ built_tree' = TRUE
     /\ IF PathRaises(path)
        THEN Crash("ValueError") /\ UNCHANGED planned_path
        ELSE IF PathDiverges(path)
        THEN /\ pc' = "hung" /\ last' = lst
             /\ UNCHANGED <<planned_path, err>>
        ELSE /\ planned_path' = path
             /\ pc' = after_observe(built_tree) /\ last' = lst
             /\ UNCHANGED err

\* new_obstacles that holds all that is observed
new_obstacles_all(observations, detected) == observations

\* observe_world: new_obstacles = observations - detected_obstacles
new_obstacles_of(observations, detected) == observations \ detected

\* observe_world: deleted_obstacles = detected_obstacles - observations
deleted_obstacles_of(observations, detected) == detected \ observations

\* detected_obstacles that holds what is observed now only
detected_now(detected, observations) == observations

\* observe_world: detected_obstacles.union(observations)
detected_union(detected, observations) == detected \cup observations

\* handle_deleted_obstacles: nothing is done
handle_deleted_obstacles(T, deleted_obstacles) == T

\* path_line.intersects(new_obstacles) that holds whatever the path is
path_line_intersects_any(path, new_obstacles) == TRUE

\* handle_new_obstacles: path_line.intersects(new_obstacles), path the
\* position followed by the planned path
path_line_intersects(path, new_obstacles) ==
  \E k \in 1 .. Len(path) - 1 :
     ~edge_obstacle_free(path[k], path[k + 1], new_obstacles)

\* observe_world at pos, with plan the remaining planned path
observe_world(pos, plan) ==
  LET observations == make_observations(pos, world_obstacles)
      new_obstacles == new_obstacles_of(observations, detected_obstacles)
      deleted_obstacles == deleted_obstacles_of(observations, detected_obstacles)
      det == detected_union(detected_obstacles, observations)
      path == <<pos>> \o plan
      hit == path_line_intersects(path, new_obstacles)
  IN
  IF observations = {}
  THEN \* The intersection is empty.  Its type is the geometry library's
       \* choice: when it is neither a Polygon nor a MultiPolygon,
       \* make_observations returns None and `None - detected_obstacles`
       \* raises; when it is an empty Polygon, the observation is an empty
       \* MultiPolygon and nothing is new.
       \/ /\ Crash("TypeError")
          /\ planned_path' = plan
          /\ UNCHANGED <<detected_obstacles, built_tree, storeVars, queueVars,
                         loopVars>>
       \/ /\ planned_path' = plan
          /\ pc' = after_observe(pc # "start")
          /\ last' = [NoLast EXCEPT !.op = "observe"]
          /\ UNCHANGED <<detected_obstacles, built_tree, storeVars, queueVars,
                         loopVars, err>>
  ELSE
  /\ detected_obstacles' = det
  /\ IF new_obstacles = {} \/ (built_tree /\ (plan = <<>> \/ ~hit))
     THEN /\ planned_path' = plan
          /\ pc' = after_observe(pc # "start")
          /\ last' = [NoLast EXCEPT !.op = "observe", !.new = new_obstacles,
                                    !.deleted = deleted_obstacles]
          /\ SetStore(handle_deleted_obstacles(Store, deleted_obstacles))
          /\ UNCHANGED <<built_tree, queueVars, loopVars, err>>
     ELSE IF ~built_tree \/ planner = "RRTStar"
     THEN \* do_first_plan, RRTStar.replan: build_rrt_tree starts
          /\ planned_path' = <<>>
          /\ SetStore(BuildStart(Store))
          /\ i' = 0 /\ final_pt' = None /\ final_pt_cost' = Inf
          /\ pc' = "build"
          /\ last' = [NoLast EXCEPT !.op = "build_start", !.preV = rrt_vertices]
          /\ UNCHANGED <<built_tree, queueVars, err>>
     ELSE \* FARRTStar2.replan: sever, then do_farrt_rewiring starts
          \E r \in do_tree_severing(Store, Queue, plan, pos, det) :
            IF r.T.err # "" \/ r.Q.err # ""
            THEN /\ Crash(IF r.T.err # "" THEN r.T.err ELSE r.Q.err)
                 /\ planned_path' = plan
                 /\ UNCHANGED <<built_tree, storeVars, queueVars, loopVars>>
            ELSE /\ planned_path' = <<>>
                 /\ SetStore(r.T)
                 /\ SetQueue(r.Q)
                 /\ i' = 0 /\ final_pt' = None /\ final_pt_cost' = Inf
                 /\ pc' = "rewire"
                 /\ last' = [NoLast EXCEPT !.op = "sever", !.preV = rrt_vertices,
                               !.sev = SevOf(r),
                               !.pre = [T |-> Store, Q |-> Queue,
                                        plan |-> plan, pos |-> pos]]
                 /\ UNCHANGED <<built_tree, err>>

\* run(): the initial observation
InitialObserve ==
  /\ pc = "start"
  /\ observe_world(curr_pos, planned_path)
  /\ UNCHANGED <<search, planner, grain, x_start, world_obstacles, curr_pos>>

\* step_through_plan that returns the head of the plan and leaves it there
step_through_plan_keep(pos, plan) ==
  IF Len(plan) = 0
  THEN [node |-> pos, planned_path |-> plan]
  ELSE [node |-> Head(plan), planned_path |-> plan]

\* step_through_plan: the node returned and the planned_path left behind
step_through_plan(pos, plan) ==
  IF Len(plan) = 0
  THEN [node |-> pos, planned_path |-> plan]
  ELSE [node |-> Head(plan), planned_path |-> Tail(plan)]

\* run(): one pass of the loop up to the call of update_plan:
\* step_through_plan, curr_pos = next_node, observe_world
Step ==
  /\ pc = "loop"
  /\ curr_pos # x_goal
  /\ LET s == step_through_plan(curr_pos, planned_path)
         next_node == s.node
         rest == s.planned_path
     IN /\ curr_pos' = next_node
        /\ observe_world(next_node, rest)
  /\ UNCHANGED <<search, planner, grain, x_start, world_obstacles>>

\* The end of one pass of build_rrt_tree that returns at the first vertex
\* that reaches the goal point, on the first build too
BuildTail_first(T, x_nearest, x_new, min_cost, added) ==
  LET reached == added /\ reached_goal(x_new, curr_pos, 0)
      fin == IF reached THEN x_new ELSE final_pt
      i2 == Min(i + 1, Iters)
      lst == [NoLast EXCEPT !.op = IF added THEN "expand" ELSE "skip",
                            !.x_new = x_new, !.preV = rrt_vertices,
                            !.min_cost = min_cost, !.built = built_tree,
                            !.x_nearest = x_nearest]
  IN IF T.err # ""
     THEN /\ Crash(T.err)
          /\ UNCHANGED <<planned_path, built_tree, storeVars, queueVars,
                         loopVars>>
     ELSE IF reached \/ ~(i2 < Iters \/ fin = None)
     THEN Finish(T, Queue, fin, lst)
     ELSE /\ SetStore(T)
          /\ i' = i2 /\ UNCHANGED <<final_pt, final_pt_cost>>
          /\ pc' = "build" /\ last' = lst
          /\ UNCHANGED <<planned_path, built_tree, queueVars, err>>

\* The end of one pass of the loop of build_rrt_tree
BuildTail(T, x_nearest, x_new, min_cost, added) ==
  LET reached == added /\ reached_goal(x_new, curr_pos, 0)
      better == reached /\ (built_tree \/ min_cost < final_pt_cost)
      fin == IF better THEN x_new ELSE final_pt
      finc == IF better /\ ~built_tree THEN min_cost ELSE final_pt_cost
      i2 == Min(i + 1, Iters)
      lst == [NoLast EXCEPT !.op = IF added THEN "expand" ELSE "skip",
                            !.x_new = x_new, !.preV = rrt_vertices,
                            !.min_cost = min_cost, !.built = built_tree,
                            !.x_nearest = x_nearest]
  IN IF T.err # ""
     THEN /\ Crash(T.err)
          /\ UNCHANGED <<planned_path, built_tree, storeVars, queueVars,
                         loopVars>>
     ELSE IF (reached /\ built_tree) \/ ~(i2 < Iters \/ fin = None)
     THEN Finish(T, Queue, fin, lst)
     ELSE /\ SetStore(T)
          /\ i' = i2 /\ final_pt' = fin /\ final_pt_cost' = finc
          /\ pc' = "build" /\ last' = lst
          /\ UNCHANGED <<planned_path, built_tree, queueVars, err>>

\* the buffer_radius that a pass of build_rrt_tree hands to sample_free
buffer_radius(it, fin) ==
  IF 2 * it > Iters /\ fin = None THEN 0 ELSE AvoidRadius

\* build_rrt_tree: one pass of the loop
BuildIter ==
  /\ pc = "build"
  /\ \E x_rand \in sample_free(curr_pos, buffer_radius(i, final_pt)) :
       \E x_nearest \in find_nearest(rrt_tree, x_rand) :
         LET x_new == steer(x_nearest, x_rand)
         IN /\ x_new # None
            /\ x_rand # curr_pos => x_new \notin Used
            /\ IF edge_obstacle_free(x_nearest, x_new, detected_obstacles)
               THEN \E r \in Expand(Store, x_nearest, x_new,
                                    detected_obstacles, curr_pos) :
                      BuildTail(r.T, x_nearest, x_new, r.min_cost, TRUE)
               ELSE BuildTail(Store, x_nearest, x_new, Inf, FALSE)
  /\ UNCHANGED <<search, planner, grain, x_start, world_obstacles, detected_obstacles, curr_pos>>


\* apply_field_to_pt: the point pushed by the potential field, the tree
\* attraction and the goal attraction, clipped to the world box.  Its value
\* comes from numeric library code: any position not used before.
apply_field_to_pt(pt) == Pts \ Used

RECURSIVE VerifyAll(_, _, _)
VerifyAll(Qs, T, S) ==
  IF S = {} THEN Qs
  ELSE LET o == CHOOSE o \in S : TRUE
       IN VerifyAll(UNION {verify_queue(q, T, o) : q \in Qs}, T, S \ {o})

\* The loop condition of do_farrt_rewiring, evaluated left to right: the
\* possible [Q, cont]
RewireCond(Q, T) ==
  UNION {IF a.Q.err # "" \/ ~a.res
         THEN {[Q |-> a.Q, cont |-> final_pt = None]}
         ELSE IF curr_pos \notin DOMAIN T.cost
         THEN {[Q |-> [a.Q EXCEPT !.err = "KeyError"], cont |-> FALSE]}
         ELSE IF T.cost[curr_pos] = Inf \/ curr_pos \in DOMAIN a.Q.key_map
         THEN {[Q |-> a.Q, cont |-> TRUE]}
         ELSE {[Q |-> b.Q, cont |-> b.res \/ final_pt = None] :
                 b \in testQtop(a.Q, T, curr_pos)} :
         a \in queue_not_empty(Q, T)}

\* `as_point(self.popPQ()) if self.queue_not_empty() else
\* self.sample_free(goal, buffer_radius=0)`: the possible [Q, x_free, pop]
RewirePick(Q, T) ==
  UNION {IF a.Q.err # "" THEN {[Q |-> a.Q, x_free |-> None, pop |-> NoPop]}
         ELSE IF a.res
         THEN LET r == popPQ(a.Q)
              IN {[Q |-> IF r.empty THEN [r.Q EXCEPT !.err = "Empty"] ELSE r.Q,
                   x_free |-> r.pt,
                   pop |-> [pt |-> r.pt, key_map |-> a.Q.key_map,
                            heap |-> a.Q.heap, prev |-> -1]]}
         ELSE {[Q |-> a.Q, x_free |-> x, pop |-> NoPop] :
                 x \in sample_free(curr_pos, 0)} :
         a \in queue_not_empty(Q, T)}

\* The end of one pass of the loop of do_farrt_rewiring
RewireTail(T, Qs, x_new, added, pop) ==
  LET lst == [NoLast EXCEPT !.op = IF added THEN "expand" ELSE "skip",
                            !.x_new = x_new, !.preV = rrt_vertices,
                            !.pop = pop, !.built = built_tree]
  IN \E Q \in Qs :
       IF T.err # "" \/ Q.err # ""
       THEN /\ Crash(IF T.err # "" THEN T.err ELSE Q.err)
            /\ UNCHANGED <<planned_path, built_tree, storeVars, queueVars,
                           loopVars>>
       ELSE IF added /\ reached_goal(x_new, curr_pos, 0)
       THEN Finish(T, Q, x_new, lst)
       ELSE /\ SetStore(T)
            /\ SetQueue(Q)
            /\ i' = Min(i + 1, Iters)
            /\ pc' = "rewire" /\ last' = lst
            /\ UNCHANGED <<planned_path, built_tree, final_pt, final_pt_cost,
                           err>>

\* do_farrt_rewiring: the loop condition and one pass of the loop
RewireIter ==
  /\ pc = "rewire"
  /\ \E c \in RewireCond(Queue, Store) :
       IF c.Q.err # ""
       THEN /\ Crash(c.Q.err)
            /\ UNCHANGED <<planned_path, built_tree, storeVars, queueVars,
                           loopVars>>
       ELSE IF ~c.cont
       THEN Finish(Store, c.Q, final_pt, [NoLast EXCEPT !.op = "rewire_end"])
       ELSE \E k \in RewirePick(c.Q, Store) :
         IF k.Q.err # ""
         THEN /\ Crash(k.Q.err)
              /\ UNCHANGED <<planned_path, built_tree, storeVars, queueVars,
                             loopVars>>
         ELSE
         \E x_field \in IF k.x_free # curr_pos
                        THEN apply_field_to_pt(k.x_free) ELSE {k.x_free} :
           \E x_nearest \in find_nearest(rrt_tree, x_field) :
             LET x_new == steer(x_nearest, x_field)
             IN /\ x_new # None
                /\ x_field # curr_pos => x_new \notin Used
                /\ IF edge_obstacle_free(x_nearest, x_new, detected_obstacles)
                   THEN \E r \in Expand(Store, x_nearest, x_new,
                                        detected_obstacles, curr_pos) :
                          RewireTail(r.T,
                                     VerifyAll({k.Q}, r.T, r.nearby \ r.T.G),
                                     x_new, TRUE, k.pop)
                   ELSE RewireTail(Store, {k.Q}, x_new, FALSE, k.pop)
  /\ UNCHANGED <<search, planner, grain, x_start, world_obstacles, detected_obstacles, curr_pos>>

\* run(): self.update_plan() at the end of a pass.  RRTStar.update_plan
\* hands self to PartiallyObservablePlanner.update_plan, which is defined
\* without parameters: the call raises TypeError.
UpdatePlan ==
  /\ pc = "update"
  /\ Crash("TypeError")
  /\ UNCHANGED <<search, planner, grain, x_start, world_obstacles,
                 detected_obstacles, curr_pos, planned_path, built_tree,
                 storeVars, queueVars, loopVars>>

Next == InitialObserve \/ Step \/ UpdatePlan \/ BuildIter \/ RewireIter

Spec == Init /\ [][Next]_vars

\* ------------------------------------------------- calls from outside run()
\* do_tree_severing called on its own with the planned path, on the planner
\* as an observe_world that did not replan has left it
SeverCall ==
  /\ Looping /\ planner = "FARRTStar2" /\ built_tree
  /\ \E r \in do_tree_severing(Store, Queue, planned_path, curr_pos,
                                detected_obstacles) :
       IF r.T.err # "" \/ r.Q.err # ""
       THEN /\ pc' = "crashed"
            /\ err' = (IF r.T.err # "" THEN r.T.err ELSE r.Q.err)
            /\ last' = [NoLast EXCEPT !.op = "sever_raise",
                          !.preV = rrt_vertices,
                          !.pre = [T |-> Store, Q |-> Queue,
                                   plan |-> planned_path, pos |-> curr_pos]]
            /\ UNCHANGED <<storeVars, queueVars>>
       ELSE /\ SetStore(r.T)
            /\ SetQueue(r.Q)
            /\ pc' = "severed"
            /\ last' = [NoLast EXCEPT !.op = "sever", !.preV = rrt_vertices,
                          !.sev = SevOf(r),
                          !.pre = [T |-> Store, Q |-> Queue,
                                   plan |-> planned_path, pos |-> curr_pos]]
            /\ UNCHANGED err
  /\ UNCHANGED <<search, planner, grain, x_start, world_obstacles, detected_obstacles,
                 curr_pos, planned_path, built_tree, loopVars>>

NextSever == Next \/ SeverCall

SpecSever == Init /\ [][NextSever]_vars

\* insertPQ / popPQ called on their own once the first plan is made, on a
\* tree of at most MaxPQTree vertices, with at most MaxQ points queued
MaxQ == 2
MaxPQTree == 3

PQInsert ==
  /\ pc \in {"loop", "pq"} /\ planner = "FARRTStar2" /\ built_tree
  /\ curr_pos = x_start
  /\ Cardinality(rrt_vertices) <= MaxPQTree
  /\ Cardinality(DOMAIN queue_key_map) < MaxQ
  /\ \E pt \in Pts : \E Q \in insertPQ(Queue, Store, pt) :
       IF Q.err # ""
       THEN Crash(Q.err) /\ UNCHANGED queueVars
       ELSE /\ SetQueue(Q)
            /\ pc' = "pq"
            /\ last' = [NoLast EXCEPT !.op = "insert", !.x_new = pt]
            /\ UNCHANGED err
  /\ UNCHANGED <<search, planner, grain, x_start, world_obstacles, detected_obstacles,
                 curr_pos, planned_path, built_tree, storeVars, loopVars>>

PQPop ==
  /\ pc = "pq"
  /\ LET r == popPQ(Queue)
     IN IF r.empty
        THEN Crash("Empty") /\ UNCHANGED queueVars
        ELSE /\ SetQueue(r.Q)
             /\ pc' = "pq"
             /\ last' = [NoLast EXCEPT
                           !.op = "pop",
                           !.pop = [pt |-> r.pt, key_map |-> queue_key_map,
                                    heap |-> rewiringPQ,
                                    prev |-> IF last.op = "pop"
                                             THEN last.pop.key_map[last.pop.pt]
                                             ELSE -1],
                           \* the point updated by the call just before,
                           \* and the queue before that update
                           !.x_new = IF last.op = "update" THEN last.x_new
                                     ELSE None,
                           !.pre = IF last.op = "update"
                                   THEN [NoPre EXCEPT
                                           !.Q = [heap |-> last.pop.heap,
                                                  key_map |-> last.pop.key_map,
                                                  err |-> ""]]
                                   ELSE NoPre]
             /\ UNCHANGED err
  /\ UNCHANGED <<search, planner, grain, x_start, world_obstacles, detected_obstacles,
                 curr_pos, planned_path, built_tree, storeVars, loopVars>>

NextPQ == Next \/ PQInsert \/ PQPop

SpecPQ == Init /\ [][NextPQ]_vars

\* updatePQ called on its own, and add_vertex called on its own between the
\* queue calls (the keys of the queued points change with the tree); at most
\* MaxHeap entries in rewiringPQ
MaxHeap == 3

RECURSIVE HeapSize(_)
HeapSize(h) ==
  IF DOMAIN h = {} THEN 0
  ELSE LET e == CHOOSE e \in DOMAIN h : TRUE IN h[e] + HeapSize(Del(h, e))

PQUpdate ==
  /\ pc = "pq"
  /\ HeapSize(rewiringPQ) < MaxHeap
  /\ \E pt \in DOMAIN queue_key_map : \E Q \in updatePQ(Queue, Store, pt) :
       IF Q.err # ""
       THEN Crash(Q.err) /\ UNCHANGED queueVars
       ELSE /\ SetQueue(Q)
            /\ pc' = "pq"
            /\ last' = [NoLast EXCEPT
                          !.op = "update", !.x_new = pt,
                          !.pop = [pt |-> None, key_map |-> queue_key_map,
                                   heap |-> rewiringPQ, prev |-> -1]]
            /\ UNCHANGED err
  /\ UNCHANGED <<search, planner, grain, x_start, world_obstacles, detected_obstacles,
                 curr_pos, planned_path, built_tree, storeVars, loopVars>>

PQGrow ==
  /\ pc = "pq"
  /\ Cardinality(rrt_vertices) < MaxPQTree
  /\ \E pt \in Pts \ Used : \E x_nearest \in find_nearest(rrt_tree, pt) :
       LET T == add_vertex(Store, pt, x_nearest,
                           PlusCost(cost_to_reach[x_nearest],
                                    get_edge_cost(x_nearest, pt)))
       IN IF T.err # ""
          THEN Crash(T.err) /\ UNCHANGED storeVars
          ELSE /\ SetStore(T)
               /\ pc' = "pq"
               /\ last' = [NoLast EXCEPT !.op = "grow", !.x_new = pt,
                                         !.preV = rrt_vertices]
               /\ UNCHANGED err
  /\ UNCHANGED <<search, planner, grain, x_start, world_obstacles, detected_obstacles,
                 curr_pos, planned_path, built_tree, queueVars, loopVars>>

\* The queue calls are made after the first plan of a FARRT* planner in a
\* world of one pillar
InitPQUpdate ==
  Init /\ planner = "FARRTStar2" /\ Cardinality(world_obstacles) = 1

NextPQUpdate ==
  InitialObserve \/ BuildIter \/ PQInsert \/ PQPop \/ PQUpdate \/ PQGrow

SpecPQUpdate == InitPQUpdate /\ [][NextPQUpdate]_vars

\* queue_not_empty and testQtop(curr_pos) called on their own between the
\* other queue calls; the value returned is kept in last.res
PQNotEmpty ==
  /\ pc = "pq"
  /\ \E r \in queue_not_empty(Queue, Store) :
       IF r.Q.err # ""
       THEN /\ pc' = "crashed" /\ err' = r.Q.err
            /\ last' = [NoLast EXCEPT !.op = "not_empty_raise"]
            /\ UNCHANGED queueVars
       ELSE /\ SetQueue(r.Q)
            /\ pc' = "pq"
            /\ last' = [NoLast EXCEPT !.op = "not_empty", !.res = r.res]
            /\ UNCHANGED err
  /\ UNCHANGED <<search, planner, grain, x_start, world_obstacles, detected_obstacles,
                 curr_pos, planned_path, built_tree, storeVars, loopVars>>

PQTestTop ==
  /\ pc = "pq"
  /\ \E r \in testQtop(Queue, Store, curr_pos) :
       IF r.Q.err # ""
       THEN /\ pc' = "crashed" /\ err' = r.Q.err
            /\ last' = [NoLast EXCEPT !.op = "test_top_raise"]
            /\ SetQueue([r.Q EXCEPT !.err = ""])
       ELSE /\ SetQueue(r.Q)
            /\ pc' = "pq"
            /\ last' = [NoLast EXCEPT !.op = "test_top", !.res = r.res]
            /\ UNCHANGED err
  /\ UNCHANGED <<search, planner, grain, x_start, world_obstacles, detected_obstacles,
                 curr_pos, planned_path, built_tree, storeVars, loopVars>>

\* The calls are made after the first plan of a FARRT* planner that starts
\* next to the corner, in a world of one pillar above the bottom row
InitPQObserve ==
  InitPQUpdate /\ x_start = <<1, 0>> /\ world_obstacles = {Dbl(<<2, 1>>)}

NextPQObserve ==
  \/ InitialObserve \/ BuildIter \/ PQInsert \/ PQPop \/ PQUpdate \/ PQGrow
  \/ PQNotEmpty \/ PQTestTop

SpecPQObserve == InitPQObserve /\ [][NextPQObserve]_vars

\* A FARRT* planner in a world of two pillars, one of them between two
\* lattice points
InitGap ==
  /\ planner = "FARRTStar2"
  /\ grain = 1
  /\ search = NoSearch
  /\ pc = "start"
  /\ x_start \in Starts
  /\ world_obstacles \in {{a, g} : a \in Pillars(x_start), g \in GapPillars}
  /\ InitPlanner

SpecGap == InitGap /\ [][Next]_vars

\* A direct call of step_through_plan between two passes of run()'s loop,
\* and again after such a call; the node returned is kept in last.x_new
StepCall ==
  /\ pc \in {"loop", "stepped"}
  /\ LET s == step_through_plan(curr_pos, planned_path)
     IN /\ planned_path' = s.planned_path
        /\ last' = [NoLast EXCEPT !.op = "step", !.x_new = s.node,
                                  !.pre = [NoPre EXCEPT !.plan = planned_path,
                                                        !.pos = curr_pos]]
  /\ pc' = "stepped"
  /\ UNCHANGED <<search, planner, grain, x_start, world_obstacles, detected_obstacles,
                 curr_pos, built_tree, storeVars, queueVars, loopVars, err>>

\* The calls are made on the plans of an RRT* planner in a world of one pillar
InitStep ==
  Init /\ planner = "RRTStar" /\ Cardinality(world_obstacles) = 1

NextStep == InitialObserve \/ BuildIter \/ Step \/ UpdatePlan \/ StepCall

SpecStep == InitStep /\ [][NextStep]_vars

\* An RRT* planner whose positions are on a lattice of half units, in a
\* world of one pillar
InitFine ==
  /\ planner = "RRTStar"
  /\ grain = 2
  /\ search = NoSearch
  /\ pc = "start"
  /\ x_start \in Starts
  /\ world_obstacles \in {{c} : c \in Pillars(x_start)}
  /\ InitPlanner

NextFine == InitialObserve \/ Step \/ UpdatePlan \/ BuildIter

SpecFine == InitFine /\ [][NextFine]_vars

\* ------------------------------------------- the reference planner, test.py
\* RRTFamilyPathPlanner on the lattice: start_pose = x_start, the goal
\* region holds x_goal alone, the obstacles are the pillars of the world,
\* the bounds lie outside the lattice, object_radius is small, and
\* num_iterations = SearchN.
SearchN == 3

\* find_path: the path from start_point to end_point and its length
RECURSIVE FindPathWalk(_, _, _, _)
FindPathWalk(dict, current_node, target_node, fuel) ==
  IF current_node = target_node \/ fuel = 0 \/ current_node \notin DOMAIN dict
  THEN [path |-> <<current_node>>, path_length |-> 0]
  ELSE LET r == FindPathWalk(dict, dict[current_node], target_node, fuel - 1)
       IN [path |-> r.path \o <<current_node>>,
           path_length |-> r.path_length
                             + get_edge_cost(dict[current_node], current_node)]

find_path(dict, start_point, end_point) ==
  FindPathWalk(dict, end_point, start_point, Cardinality(Pts) + 1)

cost(dict, vertex) == find_path(dict, x_start, vertex).path_length

linecost(point1, point2) == get_edge_cost(point1, point2)

get_collision_free_random_point ==
  {p \in Pts : point_obstacle_free(p, world_obstacles)}

\* find_nearest_point: a closest vertex (the first met by the loop over V)
find_nearest_point(V, random_point) ==
  {p \in V : \A o \in V : D2(p, random_point) <= D2(o, random_point)}

\* test.py steer: to_point when it is within steer_distance, else the point
\* at steer_distance towards it; None when that point is off the lattice
steer_towards(from_point, to_point) ==
  IF D2(from_point, to_point) <= SteerDistance * SteerDistance THEN to_point
  ELSE LET S == {p \in Pts : /\ OnSegment(p, from_point, to_point)
                             /\ D2(from_point, p) = SteerDistance * SteerDistance}
       IN IF S = {} THEN None ELSE CHOOSE p \in S : TRUE

isEdgeCollisionFree(point1, point2) ==
  edge_obstacle_free(point1, point2, world_obstacles)

isAtGoalRegion(point) == point = x_goal

\* find_nearest_set: the vertices closer than the ball radius
find_nearest_set(V, new_point) ==
  {v \in V : 10000 * D2(new_point, v) < find_ball_radius(Cardinality(V))}

\* find_min_point: the possible results (the first of the cheapest parents
\* met by the loop over nearest_set, nearest_point when none is cheaper)
find_min_point(dict, nearest_set, nearest_point, new_point) ==
  LET c(v) == cost(dict, v) + linecost(v, new_point)
      cand == {v \in nearest_set : isEdgeCollisionFree(v, new_point)}
      best == {v \in cand : c(v) < c(nearest_point)
                             /\ \A w \in cand : c(v) <= c(w)}
  IN IF best = {} THEN {nearest_point} ELSE best

\* rewire: the vertices of todo are visited one after the other
RECURSIVE rewire(_, _, _)
rewire(S, todo, new_point) ==
  IF todo = {} THEN S
  ELSE LET vertex == CHOOSE v \in todo : TRUE
           d == S.child_to_parent_dict
           S2 == IF /\ isEdgeCollisionFree(vertex, new_point)
                    /\ cost(d, vertex) > cost(d, new_point)
                                            + linecost(vertex, new_point)
                    /\ vertex \in DOMAIN d
                 THEN [S EXCEPT !.E = (@ \ {<<d[vertex], vertex>>,
                                            <<vertex, d[vertex]>>})
                                        \cup {<<new_point, vertex>>},
                                !.child_to_parent_dict = Put(@, vertex, new_point)]
                 ELSE S
       IN rewire(S2, todo \ {vertex}, new_point)

\* The end of one pass of the loop of RRTSearch / RRTStarSearch: the test
\* of the goal region, the break and the return after the last pass
SearchTail(S, new_point, added) ==
  LET at == added /\ isAtGoalRegion(new_point)
      fp == find_path(S.child_to_parent_dict, x_start, new_point)
  IN IF at /\ ~S.runForFullIterations
     THEN [S EXCEPT !.path = fp.path, !.path_length = fp.path_length,
                    !.returned = TRUE]
     ELSE [S EXCEPT !.path = IF at /\ fp.path_length < S.path_length
                             THEN fp.path ELSE @,
                    !.path_length = IF at /\ fp.path_length < S.path_length
                                    THEN fp.path_length ELSE @,
                    !.i = S.i + 1,
                    !.returned = (S.i + 1 = SearchN)]

\* RRTSearch: one pass of the loop
RRTSearch ==
  /\ pc = "search" /\ search.flavour = "RRT"
  /\ ~search.returned /\ search.i < SearchN
  /\ \E random_point \in get_collision_free_random_point \ search.V :
       \E nearest_point \in find_nearest_point(search.V, random_point) :
         LET new_point == steer_towards(nearest_point, random_point)
         IN /\ new_point # None /\ new_point \notin search.V
            /\ search' =
                 IF isEdgeCollisionFree(nearest_point, new_point)
                 THEN SearchTail(
                        [search EXCEPT
                           !.V = @ \cup {new_point},
                           !.E = @ \cup {<<nearest_point, new_point>>},
                           !.child_to_parent_dict = Put(@, new_point, nearest_point)],
                        new_point, TRUE)
                 ELSE SearchTail(search, new_point, FALSE)
  /\ UNCHANGED <<planner, grain, x_start, world_obstacles, detected_obstacles,
                 curr_pos, planned_path, built_tree, storeVars, queueVars,
                 loopVars, pc, err, last>>

\* RRTStarSearch: one pass of the loop
RRTStarSearch ==
  /\ pc = "search" /\ search.flavour = "RRT*"
  /\ ~search.returned /\ search.i < SearchN
  /\ \E random_point \in get_collision_free_random_point \ search.V :
       \E nearest_point \in find_nearest_point(search.V, random_point) :
         LET new_point == steer_towards(nearest_point, random_point)
             nearest_set == find_nearest_set(search.V, new_point)
         IN /\ new_point # None /\ new_point \notin search.V
            /\ IF isEdgeCollisionFree(nearest_point, new_point)
               THEN \E min_point \in find_min_point(search.child_to_parent_dict,
                                      nearest_set, nearest_point, new_point) :
                      search' =
                        SearchTail(
                          rewire([search EXCEPT
                                    !.V = @ \cup {new_point},
                                    !.E = @ \cup {<<min_point, new_point>>},
                                    !.child_to_parent_dict =
                                       Put(@, new_point, min_point)],
                                 nearest_set \ {min_point}, new_point),
                          new_point, TRUE)
               ELSE search' = SearchTail(search, new_point, FALSE)
  /\ UNCHANGED <<planner, grain, x_start, world_obstacles, detected_obstacles,
                 curr_pos, planned_path, built_tree, storeVars, queueVars,
                 loopVars, pc, err, last>>

\* initialise, and the start of RRTSearch / RRTStarSearch: V holds start_pose
InitSearch ==
  /\ planner = "RRTStar"
  /\ grain = 1
  /\ x_start \in Starts
  /\ world_obstacles \in {O \in SUBSET Pillars(x_start) :
                            Cardinality(O) \in 1 .. MaxObs}
  /\ \E f \in {"RRT", "RRT*"}, r \in BOOLEAN :
       search = [NoSearch EXCEPT !.flavour = f, !.runForFullIterations = r,
                                 !.V = {x_start}]
  /\ InitPlanner
  /\ pc = "search"

NextSearch == RRTSearch \/ RRTStarSearch

SpecSearch == InitSearch /\ [][NextSearch]_vars

TypeOK ==
  /\ pc \in {"start", "build", "rewire", "loop", "update", "crashed", "hung",
             "severed", "pq", "stepped", "search"}
  /\ rrt_vertices \subseteq Pts

\* ------------------------------------------------------------ properties
parent(v) == Get(child_to_parent_map, v)

\* the vertices met when walking the parent links from v
WalkOf(c2p, v) ==
  {w \in Pts : \E k \in 1 .. Len(extract_path(c2p, v, None)) :
                 extract_path(c2p, v, None)[k] = w}

Expanded == last.op \in {"expand", "skip"}

\* C1: after every expansion iteration of build_rrt_tree or
\* do_farrt_rewiring, also one whose x_new is already a vertex (the goal
\* point sampled again), the number of vertices has grown by at most one and
\* no vertex is among its own ancestors.
C1_GrowsByOneAcyclic ==
  Expanded =>
    /\ Cardinality(rrt_vertices) <= Cardinality(last.preV) + 1
    /\ \A v \in rrt_vertices : v \notin WalkOf(child_to_parent_map, v)

\* C2: in every state every edge (u, v) of rrt_edges stands for exactly one
\* parent link, parent[v] = u or parent[u] = v, never neither and never
\* both: no edge to a former parent outlives a re-parenting or the
\* re-insertion of a vertex.
C2_EdgeIsOneParentLink ==
  \A e \in rrt_edges : (parent(e[2]) = e[1]) # (parent(e[1]) = e[2])

\* C3: once the root is in the tree, also during and after a second
\* build_rrt_tree, a vertex has a parent iff it is not the root, the parent
\* is a vertex and the edge between them is in rrt_edges; and no entry of
\* the parent map refers to a point that is not a vertex any more.
C3_ParentsWithinTree ==
  pc \in {"build", "rewire", "loop", "update", "hung"} =>
    /\ \A v \in rrt_vertices :
         /\ (v \in DOMAIN child_to_parent_map) <=> (v # x_goal)
         /\ v # x_goal =>
              /\ parent(v) \in rrt_vertices
              /\ <<parent(v), v>> \in rrt_edges \/ <<v, parent(v)>> \in rrt_edges
    /\ \A v \in DOMAIN child_to_parent_map :
         v \in rrt_vertices /\ child_to_parent_map[v] \in rrt_vertices

\* C4: child_to_parent_map and parent_to_children_map are inverse to each
\* other in every state: c is among the children of p iff parent[c] = p.
C4_MapsInverse ==
  /\ \A c \in DOMAIN child_to_parent_map :
       c \in Get2(parent_to_children_map, child_to_parent_map[c])
  /\ \A p \in DOMAIN parent_to_children_map :
       \A c \in parent_to_children_map[p] : parent(c) = p

\* C4 witness: an expansion has just re-parented an older vertex to the new
\* one
C4_Rewired ==
  /\ last.op = "expand" /\ last.x_new \notin last.preV
  /\ \E v \in last.preV : parent(v) = last.x_new

\* C5: every vertex other than the root whose parent links lead to the root
\* has cost[v] = cost[parent[v]] + |parent[v] - v|, the descendants of a
\* re-parented vertex too.
C5_CostIsParentCostPlusEdge ==
  \A v \in rrt_vertices :
    (v # x_goal /\ x_goal \in WalkOf(child_to_parent_map, v)) =>
       cost_to_reach[v] = PlusCost(cost_to_reach[parent(v)],
                                   get_edge_cost(parent(v), v))

Severed == last.op = "sever"

\* C6: after do_tree_severing has removed the set S, every v in S is out of
\* rrt_vertices and rrt_tree, is in no edge, has no parent entry and has
\* cost +inf, and every u outside S whose parent was in S has no parent.
C6_SeveredAreGone ==
  Severed =>
    /\ \A v \in last.sev.severed :
         /\ v \notin rrt_vertices /\ v \notin rrt_tree
         /\ \A e \in rrt_edges : e[1] # v /\ e[2] # v
         /\ v \notin DOMAIN child_to_parent_map
         /\ v \in DOMAIN cost_to_reach /\ cost_to_reach[v] = Inf
    /\ \A u \in DOMAIN last.pre.T.c2p :
         (u \notin last.sev.severed /\ last.pre.T.c2p[u] \in last.sev.severed)
            => u \notin DOMAIN child_to_parent_map

\* the conflict set the severing starts from: the vertices within r_av / 2
\* of a detected obstacle, and the path-side end of every edge of the
\* previous plan (from the position on) that meets a detected obstacle
InitialConflict ==
  LET path == <<last.pre.pos>> \o last.pre.plan
  IN {v \in last.preV :
        \E c \in detected_obstacles :
           D2(Dbl(v), c) <= AvoidRadius * AvoidRadius}
     \cup {path[k] : k \in {k \in 1 .. Len(path) - 1 :
                             \E c \in detected_obstacles :
                                OnSegment(c, Dbl(path[k]), Dbl(path[k + 1]))}}

Removed == last.preV \ rrt_vertices

\* C7: the vertices do_tree_severing removes are the initial conflict set
\* and all the descendants of its members; the returned conflict set is the
\* removed vertices that lie in an obstacle, the freed set all the others.
C7_RemovedIsConflictClosure ==
  Severed =>
    /\ Removed = {v \in last.preV :
                    ({v} \cup WalkOf(last.pre.T.c2p, v)) \cap InitialConflict # {}}
    /\ last.sev.conflicting = {v \in Removed : Dbl(v) \in detected_obstacles}
    /\ last.sev.freed = Removed \ last.sev.conflicting

\* C7 witness: a severing that removed a descendant outside the initial
\* conflict set, with a vertex deleted and a vertex freed
C7_SeveredSubtree ==
  /\ Severed
  /\ Removed \ InitialConflict # {}
  /\ last.sev.conflicting # {} /\ last.sev.freed # {}

\* C8: the frontier do_tree_severing returns shares no vertex with the
\* conflict set or the freed set, all its members are still vertices, and it
\* holds the former parent of every initially conflicting vertex whose
\* parent was not removed.
C8_FrontierSurvives ==
  Severed =>
    /\ last.sev.closest_parents \cap (last.sev.conflicting \cup last.sev.freed) = {}
    /\ last.sev.closest_parents \subseteq rrt_vertices
    /\ \A v \in InitialConflict :
         (v \in DOMAIN last.pre.T.c2p /\ last.pre.T.c2p[v] \notin Removed)
            => last.pre.T.c2p[v] \in last.sev.closest_parents

\* C8 witness: a severing whose initial conflict set has a member with a
\* surviving parent, and a member whose parent was removed too
C8_FrontierCase ==
  /\ Severed
  /\ \E v \in InitialConflict : last.pre.T.c2p[v] \notin Removed
  /\ \E v \in InitialConflict : last.pre.T.c2p[v] \in Removed

\* C9: a severing whose conflict set is empty changes nothing: vertices,
\* edges, the two maps, the costs, rrt_tree and the queue are as before.
C9_EmptySeverIsNoOp ==
  (Severed /\ InitialConflict = {}) =>
     /\ Store = last.pre.T
     /\ Queue = last.pre.Q

\* C9 witness: a severing with an empty conflict set on a tree of three or
\* more vertices
C9_EmptySever ==
  /\ Severed /\ InitialConflict = {}
  /\ Cardinality(last.preV) >= 3

Popped == last.pop.pt # None

\* (key, point) in the order of the heap: by key, then by coordinate tuple
KeyBefore(k1, p1, k2, p2) ==
  \/ k1 < k2
  \/ k1 = k2 /\ p1[1] < p2[1]
  \/ k1 = k2 /\ p1[1] = p2[1] /\ p1[2] <= p2[2]

\* C10: popPQ returns the queued point with the least key, the least
\* coordinate tuple among equal keys, and takes it out of queue_key_map (so
\* a point inserted into an empty queue is the one popped); a pop that
\* follows a pop returns a key no less than the one before.
C10_PopReturnsLeast ==
  Popped =>
    /\ last.pop.pt \in DOMAIN last.pop.key_map
    /\ \A q \in DOMAIN last.pop.key_map :
         KeyBefore(last.pop.key_map[last.pop.pt], last.pop.pt,
                   last.pop.key_map[q], q)
    /\ last.pop.pt \notin DOMAIN queue_key_map
    /\ DOMAIN queue_key_map = DOMAIN last.pop.key_map \ {last.pop.pt}
    /\ last.pop.prev # -1 => last.pop.prev <= last.pop.key_map[last.pop.pt]

\* C10 witness: two pops in a row, the first settled between two points of
\* equal key
C10_TwoPops ==
  /\ Popped /\ last.pop.prev # -1
  /\ last.pop.prev = last.pop.key_map[last.pop.pt]

\* the entries of the heap whose vertex is queued under the entry's key
LiveEntries(h, km) ==
  {e \in DOMAIN h : e[2] \in DOMAIN km /\ km[e[2]] = e[1]}

PopCalled == pc = "pq" /\ (last'.op = "pop" \/ err' = "Empty")

\* C11: a popPQ on a heap that holds a live entry returns the vertex of the
\* least live entry, whatever stale entries lie before it: only that entry
\* stops being live, and every other live entry is still in the heap.
C11_StaleEntrySkipped ==
  [][(PopCalled /\ LiveEntries(rewiringPQ, queue_key_map) # {}) =>
       LET live == LiveEntries(rewiringPQ, queue_key_map)
           least == CHOOSE e \in live : \A f \in live : EntryLeq(e, f)
       IN /\ last'.op = "pop"
          /\ last'.pop.pt = least[2]
          /\ LiveEntries(rewiringPQ', queue_key_map') = live \ {least}]_vars

\* the updatePQ of the step before gave its vertex an entry with a key
\* strictly below the key of the top before the update
UpdatedBelowTop ==
  /\ last.op = "update"
  /\ DOMAIN last.pop.heap # {}
  /\ \E e \in DOMAIN rewiringPQ :
       /\ e[2] = last.x_new
       /\ e \notin DOMAIN last.pop.heap \/ rewiringPQ[e] > last.pop.heap[e]
       /\ e[1] < HeapTop(last.pop.heap)[1]

\* C12: the popPQ that follows an updatePQ(p) whose key is strictly below
\* the key of the top returns p; and every popPQ that returns a vertex
\* takes the entry that carries the vertex's current key, never a
\* superseded one.
C12_UpdatedLeastPopsNext ==
  [][PopCalled =>
       /\ UpdatedBelowTop => (last'.op = "pop" /\ last'.pop.pt = last.x_new)
       /\ last'.op = "pop" =>
            LET e == HeapTop(rewiringPQ)
            IN /\ e[2] = last'.pop.pt
               /\ e[2] \in DOMAIN queue_key_map /\ queue_key_map[e[2]] = e[1]
               /\ rewiringPQ' = HeapTake(rewiringPQ, e)]_vars

\* C12 witness: a pop has returned the vertex that the call before it had
\* updated to a key below the former top, and the old entry of the vertex is
\* still in the heap
C12_UpdatedPopped ==
  /\ last.op = "pop" /\ last.x_new # None
  /\ last.pop.pt = last.x_new
  /\ DOMAIN last.pre.Q.heap # {}
  /\ last.pop.key_map[last.x_new] < HeapTop(last.pre.Q.heap)[1]
  /\ \E e \in DOMAIN rewiringPQ : e[2] = last.x_new

\* C13: whenever observe_world has returned into run(), no replan is
\* under way, and so after every FARRT* replan that has returned, the
\* inconsistency queue is empty: queue_key_map has no entry and the heap
\* holds no live entry.
C13_QueueDrainedAfterReplan ==
  (Looping /\ planner = "FARRTStar2") =>
     /\ DOMAIN queue_key_map = {}
     /\ LiveEntries(rewiringPQ, queue_key_map) = {}

\* C14: once the first observe_world of run() has returned (the run is past
\* its start and not inside the first build_rrt_tree), built_tree is true,
\* and the plan extracted at the end of a build is not empty; this whatever
\* the first observation holds, an empty observation included.
C14_FirstObservationPlans ==
  /\ pc \notin {"start", "build"} => built_tree
  /\ (Looping /\ Expanded) => planned_path # <<>>

RouteClear(route, obs) ==
  \A k \in 1 .. Len(route) - 1 : edge_obstacle_free(route[k], route[k + 1], obs)

\* C15: when a replan (a build or a rewiring started with built_tree set)
\* returns with a plan, every segment of the route curr_pos, planned_path[0],
\* ..., goal is clear of the obstacles detected so far.
C15_ReplannedRouteClear ==
  [][(pc \in {"build", "rewire"} /\ built_tree /\ Looping') =>
       /\ planned_path' # <<>>
       /\ planned_path'[Len(planned_path')] = x_goal
       /\ RouteClear(<<curr_pos'>> \o planned_path', detected_obstacles')]_vars

\* C16: do_farrt_rewiring makes at most its cap of passes: once the cap is
\* used up without a final_pt the loop is left (and the replan reports the
\* failure and keeps the previous plan), so the loop is never about to make
\* a pass with the pass counter at the cap.
C16_RewiringStopsAtCap ==
  pc = "rewire" => i < Iters

\* C17: build_rrt_tree makes at most its cap of passes: when no vertex has
\* reached the goal point by then it stops and the caller is told, so the
\* loop is never about to make a pass with the pass counter at the cap.
C17_BuildStopsAtCap ==
  pc = "build" => i < Iters

\* every variable but planned_path, pc and the history variable
NotThePlan ==
  <<search, planner, grain, x_start, world_obstacles, detected_obstacles,
    curr_pos, built_tree, rrt_vertices, rrt_tree, rrt_edges, child_to_parent_map,
    parent_to_children_map, cost_to_reach, rewiringPQ, queue_key_map,
    i, final_pt, final_pt_cost, err>>

StepCalled == pc \in {"loop", "stepped"} /\ pc' = "stepped"

\* C18: a call of step_through_plan with an empty planned_path returns
\* curr_pos and changes nothing; with a non-empty planned_path it returns
\* the head of the plan and leaves the plan without that head, and nothing
\* else of the planner changes.
C18_StepTakesHead ==
  [][StepCalled =>
       /\ UNCHANGED NotThePlan
       /\ IF planned_path = <<>>
          THEN last'.x_new = curr_pos /\ planned_path' = <<>>
          ELSE /\ last'.x_new = planned_path[1]
               /\ Len(planned_path') = Len(planned_path) - 1
               /\ \A k \in 1 .. Len(planned_path') :
                    planned_path'[k] = planned_path[k + 1]]_vars

\* a call on a plan of two nodes or more has been followed by calls down to
\* the empty plan and one more on the empty plan
C18_SteppedBothWays ==
  /\ pc = "stepped" /\ last.op = "step"
  /\ last.pre.plan = <<>> /\ last.x_new = curr_pos
  /\ planned_path = <<>>
  /\ curr_pos # x_goal
  /\ built_tree

SeverCalled == last.op \in {"sever", "sever_raise"} /\ pc \in {"severed", "crashed"}

Parentless(T) == {v \in T.V : v \notin DOMAIN T.c2p}

\* C19: get_parent raises ValueError for a point that has no parent entry
\* unless allow_none is set, when it returns None, and returns the parent
\* otherwise; so a do_tree_severing whose initial conflict set holds a vertex
\* without a parent ends in that ValueError, with the tree store and the
\* queue as they were before the call.
C19_ParentlessConflictAborts ==
  /\ \A v \in rrt_vertices :
       IF v \in DOMAIN child_to_parent_map
       THEN /\ get_parent(Store, v, FALSE) = [parent |-> child_to_parent_map[v], err |-> ""]
            /\ get_parent(Store, v, TRUE) = [parent |-> child_to_parent_map[v], err |-> ""]
       ELSE /\ get_parent(Store, v, FALSE).err = "ValueError"
            /\ get_parent(Store, v, TRUE) = [parent |-> None, err |-> ""]
  /\ (SeverCalled /\ InitialConflict \cap Parentless(last.pre.T) # {}) =>
       /\ pc = "crashed" /\ err = "ValueError"
       /\ Store = last.pre.T
       /\ Queue = last.pre.Q

\* C19 witness: a severing call that was aborted on a tree of three or more
\* vertices whose root was in the initial conflict set
C19_SeverAborted ==
  /\ SeverCalled /\ pc = "crashed" /\ err = "ValueError"
  /\ x_goal \in InitialConflict \cap Parentless(last.pre.T)
  /\ Cardinality(last.preV) >= 3

\* the n-th parent of v (v itself for n = 0), None where the links end
RECURSIVE NthParent(_, _)
NthParent(v, n) ==
  IF n = 0 THEN v ELSE Get(child_to_parent_map, NthParent(v, n - 1))

\* the numbers of parent links that lead from v to the root
DepthsOf(v) == {n \in 0 .. Cardinality(Pts) : NthParent(v, n) = x_goal}

Depth(v) == CHOOSE n \in DepthsOf(v) : \A m \in DepthsOf(v) : n <= m

\* C20: for a vertex whose parent links lead to the root,
\* extract_path(endpoint, root, reverse = True) is the chain of its parents:
\* the endpoint is not in it, the root is its last element, each element is
\* followed by its parent, and it is empty when the endpoint is the root.
C20_PathIsParentChain ==
  \A v \in rrt_vertices :
    DepthsOf(v) # {} =>
      LET path == extract_path(child_to_parent_map, v, x_goal)
      IN /\ Len(path) = Depth(v)
         /\ \A k \in 1 .. Len(path) : path[k] = NthParent(v, k) /\ path[k] # v
         /\ Len(path) > 0 => path[1] = parent(v) /\ path[Len(path)] = x_goal
         /\ \A k \in 1 .. Len(path) - 1 : parent(path[k]) = path[k + 1]
         /\ (v = x_goal) => path = <<>>

\* C20 witness: a plan of three nodes or more has just been extracted for
\* the robot's position, and it is the chain of the position's parents
C20_LongPlanExtracted ==
  /\ Looping /\ Expanded
  /\ Len(planned_path) >= 3
  /\ planned_path = extract_path(child_to_parent_map, curr_pos, x_goal)
  /\ DepthsOf(curr_pos) # {}

ReplanStarts == pc = "loop" /\ built_tree /\ pc' \in {"build", "rewire"}

\* C21: once the tree is built a replan mutates it in place: the step that
\* starts a replan does not empty the vertices or restart the tree from the
\* root, and every vertex that the replan does not sever is still a vertex,
\* with the parent it had.
C21_ReplanKeepsTree ==
  [][ReplanStarts =>
       \A v \in rrt_vertices \ last'.sev.severed :
          /\ v \in rrt_vertices'
          /\ Get(child_to_parent_map', v) = Get(child_to_parent_map, v)]_vars

\* C23: reached_goal(x_new, goal, threshold) is true exactly when x_new is
\* at a distance from goal strictly below the threshold the caller passes
\* (the 0 of do_first_plan, replan and do_farrt_rewiring, or the planner's
\* goal_reached_thresh), for every vertex and the robot's position as goal.
C23_ReachedBelowThreshold ==
  \A x \in rrt_vertices : \A t \in {0, GoalReachedThresh} :
     reached_goal(x, curr_pos, t) <=> (get_edge_cost(x, curr_pos) < 100 * t)

\* the pass of build_rrt_tree that a step has made inserted a vertex that
\* reaches the goal point
ReacherInserted ==
  last'.op = "expand" /\ reached_goal(last'.x_new, curr_pos, 0)

BuildReturns == pc = "build" /\ Looping'

\* C22: on the first build build_rrt_tree returns only after iters passes
\* or more and with a goal-reaching vertex recorded; while it runs the
\* recorded vertex is the goal-reaching vertex of the least insertion cost
\* so far (the earlier one on a tie), and that vertex is the one the plan is
\* extracted from.  With the tree built it returns at the first pass that
\* inserts a goal-reaching vertex, and on no other pass.
C22_FirstBuildFullThenBest ==
  [][(pc = "build" /\ pc' \in {"build", "loop", "update"}) =>
      LET takes == ReacherInserted /\ last'.min_cost < final_pt_cost
          fin == IF takes THEN last'.x_new ELSE final_pt
      IN IF ~built_tree
         THEN /\ pc' = "build" =>
                  /\ final_pt' = fin
                  /\ final_pt_cost' = IF takes THEN last'.min_cost
                                      ELSE final_pt_cost
                  /\ (i + 1 >= Iters) => fin = None
              /\ Looping' =>
                  /\ i + 1 >= Iters
                  /\ fin # None
                  /\ planned_path' = extract_path(child_to_parent_map', fin, x_goal)
         ELSE /\ ReacherInserted <=> Looping'
              /\ Looping' =>
                   planned_path' = extract_path(child_to_parent_map',
                                                last'.x_new, x_goal)]_vars

\* C22 witness: a first build has returned after its iters passes on a pass
\* that did not insert a goal-reaching vertex: the plan comes from the
\* vertex recorded on an earlier pass
C22_FirstBuildReturnedRecorded ==
  /\ Looping /\ Expanded /\ ~last.built
  /\ ~(last.op = "expand" /\ last.x_new = curr_pos)
  /\ planned_path # <<>>

\* C24: the pass that build_rrt_tree is about to make tests its samples
\* with half of obstacle_avoidance_radius when the build is the first one,
\* the pass counter is past iters/2 and no goal-reaching vertex is recorded,
\* and with the whole obstacle_avoidance_radius in every other case.
C24_HalfBufferPastMidpoint ==
  pc = "build" =>
    buffer_radius(i, final_pt) =
      IF ~built_tree /\ 2 * i > Iters /\ final_pt = None
      THEN AvoidRadius \div 2
      ELSE AvoidRadius

PlanProduced == pc \in {"build", "rewire"} /\ Looping'

\* the hops of the route are no longer than steer_distance
ShortHops(route) ==
  \A k \in 1 .. Len(route) - 1 :
     D2(route[k], route[k + 1]) <= SteerDistance * SteerDistance

\* C25: when a plan has been produced its last element is the goal, and
\* every hop of the route curr_pos, planned_path[0], planned_path[1], ...
\* is no longer than steer_distance, the hop from curr_pos to
\* planned_path[0] too.
C25_PlanHopsWithinSteer ==
  [][PlanProduced =>
       /\ planned_path' # <<>>
       /\ planned_path'[Len(planned_path')] = x_goal
       /\ ShortHops(<<curr_pos'>> \o planned_path')]_vars

\* what a step of run() observes: the position it observes from and the
\* plan that step_through_plan has left
Observing ==
  IF pc = "start" THEN [node |-> curr_pos, planned_path |-> planned_path]
  ELSE step_through_plan(curr_pos, planned_path)

Observed == make_observations(Observing.node, world_obstacles)

\* C26: an observation that holds nothing beyond detected_obstacles gives
\* an empty new_obstacles, and the step that makes it leaves
\* detected_obstacles, the tree store and the queue as they were, and
\* planned_path as step_through_plan left it.
C26_NothingNewNothingDone ==
  [][(pc \in {"start", "loop"} /\ Observed \subseteq detected_obstacles) =>
       /\ new_obstacles_of(Observed, detected_obstacles) = {}
       /\ detected_obstacles' = detected_obstacles
       /\ Store' = Store
       /\ Queue' = Queue
       /\ planned_path' = Observing.planned_path]_vars

\* C26 witness: the robot has stepped along a plan and observed again, from
\* its new position, obstacles that were all detected before
C26_ObservedAgain ==
  /\ Looping /\ last.op = "observe" /\ built_tree
  /\ last.new = {}
  /\ make_observations(curr_pos, world_obstacles) # {}
  /\ curr_pos # x_start
  /\ planned_path # <<>>

\* C27: detected_obstacles never shrinks, and a step of run() whose
\* observation misses obstacles detected before and holds nothing new
\* leaves the tree store and the queue as they were and planned_path as
\* step_through_plan left it.
C27_DeletedIgnored ==
  [][/\ detected_obstacles \subseteq detected_obstacles'
     /\ (/\ pc = "loop"
         /\ deleted_obstacles_of(Observed, detected_obstacles) # {}
         /\ Observed \subseteq detected_obstacles) =>
           /\ Store' = Store
           /\ Queue' = Queue
           /\ planned_path' = Observing.planned_path]_vars

\* C27 witness: the robot has moved on with its plan although an obstacle
\* detected before was out of its sight, and another still in sight
C27_LostSight ==
  /\ Looping /\ last.op = "observe" /\ built_tree
  /\ last.deleted # {} /\ last.new = {}
  /\ last.deleted # detected_obstacles
  /\ planned_path # <<>>

\* C28: with runForFullIterations = True RRTSearch and RRTStarSearch
\* return the first path they find: once a path is found the search has
\* returned, it makes no further pass.
C28_FullIterationsReturnsFirst ==
  (pc = "search" /\ search.runForFullIterations /\ search.path # <<>>) =>
     search.returned

\* a pass of build_rrt_tree has inserted last'.x_new
BuildExpanded ==
  pc = "build" /\ pc' \in {"build", "loop", "update"} /\ last'.op = "expand"

\* cost[p] + dist(p, x) in the tree before the pass
CostVia(p, x) == PlusCost(cost_to_reach[p], get_edge_cost(p, x))

\* x_nearest and the near-ball vertices with an obstacle-free edge to x
ParentCandidates(x_near, x) ==
  {x_near} \cup
  {p \in find_nearby_pts(rrt_tree, Cardinality(rrt_vertices), x) :
     edge_obstacle_free(p, x, detected_obstacles)}

\* C29: a pass of build_rrt_tree that inserts x_new gives it as parent a
\* vertex x_min of x_nearest and the near-ball vertices with an
\* obstacle-free edge to x_new, one that minimises cost[x] + dist(x, x_new),
\* x_nearest itself when it attains the minimum; the cost of x_new is that
\* minimum c_min.
C29_ParentIsCheapest ==
  [][BuildExpanded =>
       LET x_new == last'.x_new
           x_near == last'.x_nearest
           x_min == Get(child_to_parent_map', x_new)
           c_min == cost_to_reach'[x_new]
       IN /\ x_min \in ParentCandidates(x_near, x_new)
          /\ c_min = CostVia(x_min, x_new)
          /\ c_min = last'.min_cost
          /\ \A p \in ParentCandidates(x_near, x_new) : c_min <= CostVia(p, x_new)
          /\ CostVia(x_near, x_new) = c_min => x_min = x_near]_vars

\* C29 witness: a vertex has been inserted under a near-ball vertex that was
\* cheaper than x_nearest
C29_CheaperParentChosen ==
  /\ pc \in {"build", "loop", "update"} /\ last.op = "expand"
  /\ last.x_nearest # None
  /\ parent(last.x_new) # last.x_nearest
  /\ cost_to_reach[last.x_new] = last.min_cost
  /\ cost_to_reach[last.x_new]
       < PlusCost(cost_to_reach[last.x_nearest],
                  get_edge_cost(last.x_nearest, last.x_new))

\* C30: in a pass of build_rrt_tree that inserts x_new, a vertex x gets
\* another parent only if the parent is x_new, x is a near-ball vertex other
\* than the parent x_min of x_new, the edge x_new-x is obstacle-free and
\* cost[x_new] + dist(x_new, x) is strictly below cost[x]; it then has that
\* cost, the edge from x_new, and no edge to its former parent.  Every
\* other vertex keeps its parent and its cost.
C30_LocalRewireStrict ==
  [][BuildExpanded =>
       LET x_new == last'.x_new
           x_min == Get(child_to_parent_map', x_new)
           N == find_nearby_pts(rrt_tree, Cardinality(rrt_vertices), x_new)
       IN \A x \in rrt_vertices \ {x_new} :
            LET old == Get(child_to_parent_map, x)
                via == PlusCost(cost_to_reach'[x_new], get_edge_cost(x_new, x))
            IN IF Get(child_to_parent_map', x) # old
               THEN /\ Get(child_to_parent_map', x) = x_new
                    /\ x \in N \ {x_min}
                    /\ edge_obstacle_free(x_new, x, detected_obstacles)
                    /\ via < cost_to_reach[x]
                    /\ cost_to_reach'[x] = via
                    /\ <<x_new, x>> \in rrt_edges'
                    /\ <<old, x>> \notin rrt_edges'
                    /\ <<x, old>> \notin rrt_edges'
               ELSE cost_to_reach'[x] = cost_to_reach[x]]_vars

\* C30 witness: the pass that inserted x_new has re-parented to it a vertex
\* that was in the tree before, and has left alone a near-ball vertex that
\* x_new would have reached at the cost it already had
C30_Rewired ==
  /\ pc \in {"build", "loop", "update"} /\ last.op = "expand"
  /\ last.x_new \notin last.preV
  /\ \E x \in last.preV : parent(x) = last.x_new
  /\ \E y \in last.preV \ {parent(last.x_new)} :
       /\ parent(y) # last.x_new
       /\ cost_to_reach[y] = PlusCost(cost_to_reach[last.x_new],
                                      get_edge_cost(last.x_new, y))
       /\ edge_obstacle_free(last.x_new, y, detected_obstacles)

\* a step of run() enters replan
ReplanEntered == pc = "loop" /\ built_tree /\ pc' \in {"build", "rewire"}

\* the obstacles a step of run() observes for the first time
NewlyObserved == Observed \ detected_obstacles

\* a segment of the polyline meets one of the obstacles
PolylineMeets(path, obs) ==
  \E k \in 1 .. Len(path) - 1 :
     \E c \in obs : OnSegment(c, Dbl(path[k]), Dbl(path[k + 1]))

\* C31: a replan is entered only with built_tree set, a non-empty
\* planned_path and a polyline curr_pos -> planned_path that meets the newly
\* observed obstacles; a step of run() that observes new obstacles which do
\* not meet that polyline leaves planned_path (as step_through_plan left it)
\* and the tree store unchanged.
C31_ReplanOnlyWhenPathHit ==
  [][/\ ReplanEntered =>
          /\ Observing.planned_path # <<>>
          /\ PolylineMeets(<<Observing.node>> \o Observing.planned_path,
                           NewlyObserved)
     /\ (/\ pc = "loop" /\ built_tree
         /\ NewlyObserved # {}
         /\ ~PolylineMeets(<<Observing.node>> \o Observing.planned_path,
                           NewlyObserved)) =>
           /\ planned_path' = Observing.planned_path
           /\ Store' = Store
           /\ Looping']_vars

\* C31 witness: with the tree built and a plan left, the robot has observed
\* a new obstacle off its path and has kept the plan
C31_NewObstacleOffPath ==
  /\ Looping /\ last.op = "observe" /\ built_tree
  /\ last.new # {}
  /\ planned_path # <<>>

\* C32: after do_tree_severing every severed vertex that is not inside a
\* detected obstacle is in the inconsistency queue, that is in queue_key_map
\* with a heap entry under the key recorded there, and no vertex inside a
\* detected obstacle is in the queue.
C32_FreeOrphansQueued ==
  Severed =>
    /\ \A v \in last.sev.severed :
         Dbl(v) \notin detected_obstacles =>
            /\ v \in DOMAIN queue_key_map
            /\ <<queue_key_map[v], v>> \in DOMAIN rewiringPQ
    /\ \A v \in DOMAIN queue_key_map : Dbl(v) \notin detected_obstacles

\* C32 witness: a severing has removed a vertex inside a detected obstacle
\* and a vertex outside the obstacles, and the latter is queued
C32_MixedSevering ==
  /\ Severed
  /\ \E v \in last.sev.severed : Dbl(v) \in detected_obstacles
  /\ \E v \in last.sev.severed :
       Dbl(v) \notin detected_obstacles /\ v \in DOMAIN queue_key_map

InsertCalled == pc \in {"loop", "pq"} /\ last'.op = "insert"

\* C33: insertPQ(p) leaves the queue as it is only when p is in
\* queue_key_map under the key it has just computed; when p is absent, or
\* present under another key, it sets queue_key_map[p] to the fresh key and
\* puts (key, p) on the heap.
C33_InsertNoOpOnlyOnSameKey ==
  [][InsertCalled =>
       LET p == last'.x_new
       IN \E key \in get_key(Store, p) :
            IF p \in DOMAIN queue_key_map /\ queue_key_map[p] = key
            THEN UNCHANGED queueVars
            ELSE /\ queue_key_map' = Put(queue_key_map, p, key)
                 /\ rewiringPQ' = HeapPut(rewiringPQ, <<key, p>>)]_vars

\* the vertices that are queued with a live heap entry
QueuedLive(h, km) == {e[2] : e \in LiveEntries(h, km)}

ObserverCalled ==
  /\ pc = "pq"
  /\ last'.op \in {"not_empty", "not_empty_raise", "test_top", "test_top_raise"}

\* C34: queue_not_empty and the key-less test on the queue top only observe
\* the queue: after either call queue_key_map has the keys it had, and the
\* vertices with a live heap entry are the same as before, also with stale
\* entries in the heap; neither call ends in an exception while a live
\* entry exists, and queue_not_empty returns true iff one exists.
C34_QueueObserversKeepQueue ==
  [][ObserverCalled =>
       /\ DOMAIN queue_key_map' = DOMAIN queue_key_map
       /\ QueuedLive(rewiringPQ', queue_key_map')
            = QueuedLive(rewiringPQ, queue_key_map)
       /\ LiveEntries(rewiringPQ, queue_key_map) # {} =>
            last'.op \in {"not_empty", "test_top"}
       /\ last'.op = "not_empty" =>
            (last'.res <=> LiveEntries(rewiringPQ, queue_key_map) # {})]_vars

\* the severed vertices that are not vertices now and lie outside the
\* detected obstacles
LooseOrphans(T, obs) ==
  {v \in (DOMAIN T.cost) \ T.V : T.cost[v] = Inf /\ Dbl(v) \notin obs}

RewireExpanded ==
  pc = "rewire" /\ pc' \in {"rewire", "loop", "update"} /\ last'.op = "expand"

\* C35: after a pass of do_farrt_rewiring that inserts x_new, every loose
\* orphan within the near-ball of x_new is in queue_key_map, under a key
\* computed against the tree as it is after the pass.
C35_NearOrphansVerified ==
  [][RewireExpanded =>
       \A o \in LooseOrphans(Store', detected_obstacles) :
          10000 * D2(o, last'.x_new) <= find_ball_radius(Cardinality(rrt_vertices))
            => /\ o \in DOMAIN queue_key_map'
               /\ queue_key_map'[o] \in get_key(Store', o)]_vars

\* C36: from the start of the first build on, whatever observations,
\* severings and rewirings follow, the goal is a vertex, has no parent and
\* has cost 0; no severing removes it, one with a detected obstacle within
\* obstacle_avoidance_radius / 2 of the goal included.
C36_GoalStaysRoot ==
  (built_tree \/ pc = "build") =>
     /\ x_goal \in rrt_vertices /\ x_goal \in rrt_tree
     /\ x_goal \notin DOMAIN child_to_parent_map
     /\ x_goal \in DOMAIN cost_to_reach /\ cost_to_reach[x_goal] = 0

\* C36 witness: do_tree_severing has been called with a detected obstacle
\* within obstacle_avoidance_radius / 2 of the goal, on a tree with vertices
\* below the goal, and the goal is still the root
C36_SeveringNearGoal ==
  /\ SeverCalled
  /\ \E c \in detected_obstacles : D2(Dbl(x_goal), c) <= AvoidRadius * AvoidRadius
  /\ x_goal \in rrt_vertices /\ cost_to_reach[x_goal] = 0
  /\ \E v \in rrt_vertices : parent(v) = x_goal

\* v reaches the root over the parent links of T through vertices of T
RECURSIVE ReachesRoot(_, _, _)
ReachesRoot(T, v, fuel) ==
  IF v = x_goal THEN v \in T.V
  ELSE /\ fuel > 0
       /\ v \in T.V
       /\ v \in DOMAIN T.c2p
       /\ ReachesRoot(T, T.c2p[v], fuel - 1)

SingleTree(T) == \A v \in T.V : ReachesRoot(T, v, Cardinality(Pts))

\* C37: after do_tree_severing every vertex that remains reaches the root
\* by its parent links through vertices that remain: no survivor is left
\* without a parent or below a severed vertex.
C37_SurvivorsReachRoot ==
  Severed => SingleTree(Store)

\* C37 witness: a severing has removed a vertex with descendants from a
\* single tree and has left vertices below the root
C37_SubtreeCut ==
  /\ Severed /\ SingleTree(last.pre.T)
  /\ \E v \in last.sev.severed : \E w \in last.sev.severed : last.pre.T.c2p[w] = v
  /\ Cardinality(rrt_vertices) >= 2
  /\ SingleTree(Store)

\* no vertex of T is labelled with less than the cost of its parent plus the
\* edge between them, and no label is negative
NoCostBelowParent(T) ==
  /\ \A v \in T.V \ {x_goal} :
       v \in DOMAIN T.c2p =>
          T.cost[v] >= PlusCost(T.cost[T.c2p[v]], get_edge_cost(T.c2p[v], v))
  /\ \A v \in DOMAIN T.cost : T.cost[v] >= 0

\* C38: in every state each vertex other than the root has
\* cost[v] >= cost[parent[v]] + dist(v, parent[v]) and every cost is
\* non-negative; and no step raises the cost label of a vertex that is a
\* vertex before and after the step.
C38_NoCostDrift ==
  [][/\ NoCostBelowParent(Store')
     /\ \A v \in rrt_vertices \cap rrt_vertices' :
          cost_to_reach'[v] <= cost_to_reach[v]]_vars

\* C39: a pass of run()'s loop that starts with a non-empty plan and does
\* not replan moves curr_pos to the head of planned_path and leaves the
\* rest; a plan ends at the goal and holds it nowhere else (n passes reach
\* it, fewer do not); once a plan has been made, a pass whose observation
\* has returned goes back to the test of the loop; and the loop is left only with curr_pos at the
\* goal: at the test with curr_pos at the goal nothing more is done, and
\* elsewhere the test lets the next pass start.
C39_PlanFollowedToGoal ==
  [][/\ (pc = "loop" /\ planned_path # <<>> /\ pc' = "update") =>
          /\ curr_pos' = Head(planned_path)
          /\ planned_path' = Tail(planned_path)
     /\ (pc' \in {"loop", "update"} /\ planned_path' # <<>>) =>
          /\ planned_path'[Len(planned_path')] = x_goal
          /\ \A k \in 1 .. Len(planned_path') - 1 : planned_path'[k] # x_goal
     /\ (pc = "update" /\ built_tree) => pc' = "loop"
     /\ pc = "loop" => curr_pos # x_goal]_vars

\* C40: whenever the queue calls have returned, every vertex of
\* queue_key_map has an entry in rewiringPQ under the key recorded for it.
C40_KeyMapBackedByHeap ==
  pc = "pq" =>
    \A v \in DOMAIN queue_key_map :
       <<queue_key_map[v], v>> \in DOMAIN rewiringPQ

====
